---------------------------- MODULE Spec2Model ----------------------------
(***************************************************************************)
(* Capture coordinator of src/BLE_controll_for_TCP/ble_master_TCP_v0.1.py. *)
(*                                                                         *)
(* One coordinator thread (send_capture_to_all_slaves) starts one task per *)
(* configured slave (capture_with_result -> send_capture_command ->        *)
(* receive_image_from_slave), joins them, and then aggregates              *)
(* (process_image_data).  The peers (the slaves and the network) are the   *)
(* environment: every socket call returns one of the outcomes the call can *)
(* produce, chosen nondeterministically.                                   *)
(*                                                                         *)
(* Scope of Spec: capture triggers that arrive while no cycle is running   *)
(* (cycles follow each other; see write_callback).  The file system calls  *)
(* of the coordinator (open/write/listdir/remove) are taken to succeed.    *)
(***************************************************************************)
EXTENDS Integers, Sequences, FiniteSets, TLC

(***************************************************************************)
(* Bounds of the model                                                     *)
(***************************************************************************)
\* number of entries of SLAVE_HOSTS that are modelled (the file lists 5)
NumSlaves == 2
\* largest image length a peer declares in its length line
MaxLen == 2
\* largest number of bytes one recv can find ready on the stream
MaxChunk == 3

(***************************************************************************)
(* Program constants                                                       *)
(***************************************************************************)
\* recv buffer of the transfer loop: sock.recv(min(4096, ...))
RecvBufSize == 4096

\* keys of SLAVE_HOSTS, in insertion order 1, 2, ...
SLAVE_HOSTS == 1..NumSlaves

VARIABLES
    \* --- module globals ---
    result,               \* the BLE characteristic value (global result)
    processing_complete,  \* global processing_complete
    dir,                  \* files in MASTER_IMAGE_DIR
    \* --- send_capture_to_all_slaves (the coordinator thread) ---
    cpc,                  \* position of the coordinator thread
    loop_pos,             \* position of the coordinator's current for loop
    results,              \* the dict results: slave_id -> result dict
    \* --- process_image_data ---
    image_files,          \* the list image_files (os.listdir order)
    process_results,      \* the list process_results
    \* --- one task per slave: send_capture_command/receive_image_from_slave ---
    tpc,                  \* position of each task
    sock,                 \* state of each task's socket
    file_size,            \* local file_size
    bytes_received,       \* local bytes_received (= len(received_data))
    ret,                  \* value returned by send_capture_command
    \* --- history of the current cycle (not program state) ---
    cause,                \* what the peer of each task did: how its exchange ended
    size_line,            \* the length line the peer of each task wrote
    stores,               \* number of assignments results[slave_id] = ...
    pubs,                 \* texts handed to update_ble_result, in order
    clears,               \* number of calls of clear_image_folder
    process_calls         \* files handed to process(), in order

vars == << result, processing_complete, dir, cpc, loop_pos, results,
           image_files, process_results, tpc, sock, file_size, bytes_received,
           ret, cause, size_line, stores, pubs, clears, process_calls >>

\* connections one responder (src/TCP_communication/slave_TCP.py) is offered
NumConns == 2
Conns == 1..NumConns

VARIABLES
    \* --- WiFiSlaveCamera (the responder of one node) ---
    spc,                  \* position of start_server
    image_dir,            \* IMAGE_DIR: the captures whose file exists
    \* --- handle_client, one thread per accepted connection ---
    hpc,                  \* position of each handler thread
    client_socket,        \* state of each accepted socket
    client_command,       \* local command of handle_client (the parsed request)
    capture_result,       \* local result (what capture_image returned)
    ack,                  \* local ack of send_image_to_client
    file_data,            \* local file_data of send_image_to_client (its length)
    sent,                 \* value returned by send_image_to_client
    \* --- the two directions of each connection ---
    inbox,                \* texts the peer wrote that the handler has not read
    written,              \* what the handler wrote on the socket, in order
    \* --- the peer of each connection (a master, or any other client) ---
    peer,                 \* position of the peer
    request,              \* the command text the peer wrote
    seen,                 \* number of the handler's writes the peer has read
    \* --- history (not program state) ---
    camera,               \* what the camera did in each handler's capture
    receiving             \* the peer has called receive_image_from_slave

responder == << spc, image_dir, hpc, client_socket, client_command, capture_result,
                file_data, ack, sent, inbox, written, peer, request, seen, camera, receiving >>

\* capture cycles that can be running at the same time
NumCycles == 2
Cycles == 1..NumCycles

VARIABLES
    \* --- capture threads started by successive triggers (write_callback) ---
    opc,                  \* position of each capture thread
    pending,              \* the tasks of each cycle that have not returned
    successes,            \* the slaves whose result has success True, per cycle
    todo,                 \* image_files of each cycle not yet visited
    scratch,              \* MASTER_IMAGE_DIR: files by storing cycle and slave
    \* --- history (not program state) ---
    classified,           \* the files each cycle handed to process()
    lost                  \* files a clear removed before their cycle read them

overlap == << opc, pending, successes, todo, scratch, classified, lost >>

\* brightness values detect_level is called with: 0..255 and this many
\* integers on either side
Margin == 3

VARIABLES
    \* --- detect_level (the classifier of ble_master_TCP_v0.1.py) ---
    h_val,                \* the argument of the last call of detect_level
    level                 \* how that call ended: a returned bval or ValueError

\* latest scan step at which the modelled frames change a sub-band's sums
MaxStep == 2

VARIABLES
    \* --- process(img_path) ---
    ppc,                  \* position of the call of process
    locals,               \* its locals c, l, b_val, n, cnt, prt_11, i, ini_sum, ...
    process_ret,          \* how the call ended: the returned list l, or an error
    frame,                \* the image at img_path, as far as a call has read it
    \* --- history (not program state) ---
    calls,                \* number of calls made on the image at img_path
    first_ret,            \* how the first call on this image ended
    scans                 \* the edge detections of the current call, in order

classifier == << h_val, level, ppc, locals, process_ret, frame, calls, first_ret, scans >>

\* SPI variant: runs of run_capture_sequence the master makes
MaxRuns == 2

\* SPI variant: packets encode_image_to_packets makes of one image
NumPackets == 2

\* SPI variant: slave_configs, the slave_ids in list order (two of them)
SPI_SLAVES == { 1, 2 }

\* the capture_worker threads a slave can start: one per accepted CAPTURE
Workers == 1..MaxRuns

VARIABLES
    \* --- SlaveController, one per slave (SlaveSpi.py) ---
    capture_status,       \* self.capture_status
    current_packets,      \* self.current_packets
    wpc,                  \* position of each capture_worker thread
    \* --- MasterController.run_capture_sequence (MasterSpi.py) ---
    mpc,                  \* position of the master
    mpos,                 \* position of the master's current for loop
    capture_results,      \* the dict capture_results
    completion_status,    \* the dict completion_status
    packet_count,         \* local packet_count of receive_image_packets
    packet_index,         \* loop variable i of receive_image_packets
    all_packets,          \* the dict all_packets (and the local list packets)
    \* --- history (not program state) ---
    runs,                 \* number of capture sequences begun
    started               \* the worker this sequence's CAPTURE started, per slave

spi == << capture_status, current_packets, wpc, mpc, mpos, capture_results,
          completion_status, packet_count, packet_index, all_packets, runs,
          started >>

\* every variable of the module
all_vars == << vars, responder, overlap, classifier, spi >>

(***************************************************************************)
(* Values                                                                  *)
(***************************************************************************)
None == [none |-> TRUE]

\* a local holding a text before its first assignment
Unbound == "<unbound>"

\* a number a call has not assigned or read yet
NotYet == 0 - 1

\* the sums of the rows of one sub-band of a crop window: all rows equal
\* ("flat"); rows of sum d that give way to rows of sum 0 so that the
\* window of the given scan step is the first to hold one of them ("drop");
\* rows that grow by RampSlope a row, up to the rows of the given step's
\* window ("ramp") or to the end ("ramp", step 0); or rows that, behind the
\* first window of the scan, shrink by RampSlope a row ("decline")
Band(kind, step, d) == [kind |-> kind, step |-> step, d |-> d]
NoBand == Band("unread", 0, 0)
Flat == Band("flat", 0, 0)
NoCrop == [upper |-> NoBand, lower |-> NoBand]

\* the image before any call has looked at it: whether cv2.imread finds an
\* image, and of each half the average brightness of its check window and
\* the rows of its crop window
UnreadHalf == [v |-> NotYet, crop |-> NoCrop]
UnreadFrame == [readable |-> "unread", left |-> UnreadHalf, right |-> UnreadHalf]

\* the locals of process before the call
NoLocals ==
    [c |-> NotYet, l |-> << >>, b_val |-> << >>, n |-> NotYet, cnt |-> NotYet,
     prt_11 |-> "none", i |-> NotYet, ini_sum |-> NotYet,
     count_t |-> NotYet, count_c |-> NotYet]

\* a plain status text and the JSON report of process_image_data
Plain(t) == [text |-> t]
CompleteReport(rs) == [results |-> rs, status |-> "complete"]

MsgReady == Plain("master Ready")
MsgStarted == Plain("Processing started...")
MsgReceived == Plain("Images received, processing...")
MsgNoImagesReceived == Plain("No images received")
MsgNoImagesToProcess == Plain("No images to process")
MsgNoValidResults == Plain("No valid results")

Min(a, b) == IF a < b THEN a ELSE b

(***************************************************************************)
(* Wire texts.  A text is what recv(1024).decode().strip() hands to the    *)
(* parser; json.loads and int are modelled by what they accept.            *)
(***************************************************************************)
\* response records a peer can write (after .strip())
TxtEmpty == "<closed>"
TxtGarbage == "<not json>"
TxtNoStatus == "{message}"
TxtError == "{status:error, message, error}"
TxtErrorNoDetail == "{status:error, message}"
TxtSuccess == "{status:success, message, filename}"
TxtSuccessAndSize == "{status:success, message, filename}\\n<size>"

\* the status record of the responder
TxtStatus == "{status:success, message, slave_id, uptime}"

\* command records a client can write (after .strip())
CmdCapture == "{action:capture, send_image:true, timestamp}"
CmdCaptureOnly == "{action:capture, send_image:false, timestamp}"
CmdStatus == "{action:status}"
CmdUnknown == "{action:reboot}"
TxtReady == "READY"

RequestTexts ==
    { CmdCapture, CmdCaptureOnly, CmdStatus, CmdUnknown, TxtGarbage }

ResponseTexts ==
    { TxtEmpty, TxtGarbage, TxtNoStatus, TxtError, TxtErrorNoDetail,
      TxtSuccess, TxtSuccessAndSize }

ErrCapture == "Failed to capture image"
ErrUnknown == "Unknown error"
ErrJson == "JSONDecodeError"
ErrKey == "KeyError: 'status'"
ErrValue == "invalid literal for int()"
ErrTimeout == "timed out"
ErrRefused == "Connection refused"
ErrReset == "Connection reset by peer"
ErrIncomplete == "Incomplete transfer"

\* json.loads: [ok |-> FALSE] is JSONDecodeError, otherwise the parsed dict
JsonLoads(t) ==
    CASE t = TxtNoStatus -> [ok |-> TRUE, value |-> [message |-> "m"]]
      [] t = TxtError -> [ok |-> TRUE, value |-> [status |-> "error", message |-> "m", error |-> ErrCapture]]
      [] t = TxtErrorNoDetail -> [ok |-> TRUE, value |-> [status |-> "error", message |-> "m"]]
      [] t = TxtSuccess -> [ok |-> TRUE, value |-> [status |-> "success", message |-> "m", filename |-> "f"]]
      [] t = TxtStatus -> [ok |-> TRUE, value |-> [status |-> "success", message |-> "m", slave_id |-> 1, uptime |-> "u"]]
      [] t = CmdCapture -> [ok |-> TRUE, value |-> [action |-> "capture", send_image |-> TRUE, timestamp |-> "t"]]
      [] t = CmdCaptureOnly -> [ok |-> TRUE, value |-> [action |-> "capture", send_image |-> FALSE, timestamp |-> "t"]]
      [] t = CmdStatus -> [ok |-> TRUE, value |-> [action |-> "status"]]
      [] t = CmdUnknown -> [ok |-> TRUE, value |-> [action |-> "reboot"]]
      [] OTHER -> [ok |-> FALSE]

\* dict.get(key, default)
Get(d, key, default) == IF key \in DOMAIN d THEN d[key] ELSE default

\* decimal digits
Digits == << "0", "1", "2", "3", "4", "5", "6", "7", "8", "9" >>
DigitValue(c) == CHOOSE i \in 0..9 : Digits[i + 1] = c
IsDigit(c) == \E i \in 1..10 : Digits[i] = c

\* f"{file_size}\n": the decimal digits of n >= 0 and a newline
RECURSIVE ToDecimal(_)
ToDecimal(n) == IF n < 10 THEN << Digits[n + 1] >>
                ELSE Append(ToDecimal(n \div 10), Digits[(n % 10) + 1])
SizeLine(n) == Append(ToDecimal(n), "\n")

\* str.strip(), for the trailing newline of a line
Strip(line) ==
    IF Len(line) > 0 /\ line[Len(line)] = "\n" THEN SubSeq(line, 1, Len(line) - 1) ELSE line

\* value of a digit string
RECURSIVE DecimalValue(_)
DecimalValue(ds) ==
    IF Len(ds) = 0 THEN 0
    ELSE 10 * DecimalValue(SubSeq(ds, 1, Len(ds) - 1)) + DigitValue(ds[Len(ds)])

\* int(text): [ok |-> FALSE] is ValueError
ParseInt(t) ==
    LET neg == Len(t) > 0 /\ t[1] = "-"
        ds == IF neg THEN Tail(t) ELSE t
    IN  IF Len(ds) > 0 /\ \A i \in 1..Len(ds) : IsDigit(ds[i])
        THEN [ok |-> TRUE, value |-> IF neg THEN 0 - DecimalValue(ds) ELSE DecimalValue(ds)]
        ELSE [ok |-> FALSE]

\* what the first recv of receive_image_from_slave can deliver
SizeTexts ==
    { SizeLine(n) : n \in 0..MaxLen } \cup { << >>, << "x", "\n" >>, << "-", "1", "\n" >> }

(***************************************************************************)
(* Result dicts of send_capture_command / receive_image_from_slave         *)
(***************************************************************************)
\* faulty variant: the except clause prints the error and returns nothing
FailureNotReturned(e) == None

\* {"success": False, "error": ...}
Failure(e) == [success |-> FALSE, error |-> e]

\* f"master_received_slave{slave_id}_{timestamp}.jpg"; cycles do not overlap
\* and the directory is empty when a cycle starts, so the timestamp is left out
Filename(slave_id) == << "master_received_slave", slave_id, ".jpg" >>

Success(slave_id, size) ==
    [success |-> TRUE, filepath |-> << "MASTER_IMAGE_DIR", Filename(slave_id) >>,
     filename |-> Filename(slave_id), size |-> size]

SuccessNoImage == [success |-> TRUE, message |-> "Command sent, no image requested"]

\* open(filepath, 'wb').write(received_data): creates or replaces the file
WriteFile(d, name, size) ==
    { f \in d : f.name # name } \cup { [name |-> name, size |-> size] }

\* the argument the capture thread passes on (write_callback uses the default)
receive_images == TRUE

(***************************************************************************)
(* Initial state: the module has been imported (clear_image_folder() has   *)
(* run, result = "master Ready") and no capture command has arrived.       *)
(***************************************************************************)
Init ==
    /\ result = MsgReady
    /\ processing_complete = FALSE
    /\ dir = {}
    /\ cpc = "idle"
    /\ loop_pos = 0
    /\ results = << >>
    /\ image_files = << >>
    /\ process_results = << >>
    /\ tpc = [s \in SLAVE_HOSTS |-> "unstarted"]
    /\ sock = [s \in SLAVE_HOSTS |-> "none"]
    /\ file_size = [s \in SLAVE_HOSTS |-> 0]
    /\ bytes_received = [s \in SLAVE_HOSTS |-> 0]
    /\ ret = [s \in SLAVE_HOSTS |-> None]
    /\ cause = [s \in SLAVE_HOSTS |-> "none"]
    /\ size_line = [s \in SLAVE_HOSTS |-> << >>]
    /\ stores = [s \in SLAVE_HOSTS |-> 0]
    /\ pubs = << >>
    /\ clears = 0
    /\ process_calls = << >>
    \* the responder has been constructed, start_server has not run
    /\ spc = "created"
    /\ image_dir = { }
    /\ hpc = [c \in Conns |-> "none"]
    /\ client_socket = [c \in Conns |-> "none"]
    /\ client_command = [c \in Conns |-> None]
    /\ capture_result = [c \in Conns |-> None]
    /\ file_data = [c \in Conns |-> 0]
    /\ ack = [c \in Conns |-> Unbound]
    /\ sent = [c \in Conns |-> None]
    /\ inbox = [c \in Conns |-> << >>]
    /\ written = [c \in Conns |-> << >>]
    /\ peer = [c \in Conns |-> "idle"]
    /\ request = [c \in Conns |-> Unbound]
    /\ seen = [c \in Conns |-> 0]
    /\ camera = [c \in Conns |-> "unused"]
    /\ receiving = [c \in Conns |-> FALSE]
    \* no capture thread has been started, the folder is empty
    /\ opc = [k \in Cycles |-> "idle"]
    /\ pending = [k \in Cycles |-> { }]
    /\ successes = [k \in Cycles |-> { }]
    /\ todo = [k \in Cycles |-> { }]
    /\ scratch = { }
    /\ classified = [k \in Cycles |-> { }]
    /\ lost = { }
    /\ h_val = 0
    /\ level = None
    /\ ppc = "idle"
    /\ locals = NoLocals
    /\ process_ret = None
    /\ frame = UnreadFrame
    /\ calls = 0
    /\ first_ret = None
    /\ scans = << >>
    \* the slave controllers are constructed, the master waits for 'start'
    /\ capture_status = [s \in SPI_SLAVES |-> "IDLE"]
    /\ current_packets = [s \in SPI_SLAVES |-> << >>]
    /\ wpc = [s \in SPI_SLAVES |-> [w \in Workers |-> "unstarted"]]
    /\ mpc = "idle"
    /\ mpos = 0
    /\ capture_results = << >>
    /\ completion_status = << >>
    /\ packet_count = 0
    /\ packet_index = 0
    /\ all_packets = << >>
    /\ runs = 0
    /\ started = [s \in SPI_SLAVES |-> 0]

globals == << result, processing_complete, dir >>
coordinator == << cpc, loop_pos, results, image_files, process_results >>
history == << stores, pubs, clears, process_calls >>

(***************************************************************************)
(* One task: capture_with_result(slave_host, slave_id, receive_images)     *)
(***************************************************************************)

\* faulty variant: a socket call that gets no answer blocks for ever
ReturnBlockingOnTimeout(s, value, why) ==
    /\ ret' = [ret EXCEPT ![s] = IF why = "timeout" THEN ret[s] ELSE value]
    /\ sock' = [sock EXCEPT ![s] = IF why = "timeout" THEN sock[s] ELSE "closed"]
    /\ cause' = [cause EXCEPT ![s] = why]
    /\ tpc' = [tpc EXCEPT ![s] = IF why = "timeout" THEN "blocked" ELSE "store"]
    /\ UNCHANGED size_line

\* send_capture_command / receive_image_from_slave leave through an except
\* clause or a return: the value is kept for capture_with_result and the
\* finally clause closes the socket
Return(s, value, why) ==
    /\ ret' = [ret EXCEPT ![s] = value]
    /\ sock' = [sock EXCEPT ![s] = "closed"]
    /\ cause' = [cause EXCEPT ![s] = why]
    /\ tpc' = [tpc EXCEPT ![s] = "store"]
    /\ UNCHANGED size_line

\* sock = socket.socket(...); sock.settimeout(TIMEOUT); sock.connect(...)
Connect(s) ==
    /\ tpc[s] = "connect"
    /\ \E o \in { "connected", "refused", "timeout" } :
         IF o = "connected"
         THEN /\ sock' = [sock EXCEPT ![s] = "connected"]
              /\ tpc' = [tpc EXCEPT ![s] = "command"]
              /\ UNCHANGED << ret, cause, size_line >>
         ELSE Return(s, Failure(IF o = "refused" THEN ErrRefused ELSE ErrTimeout), o)
    /\ UNCHANGED << globals, coordinator, history, file_size, bytes_received >>

\* the branch on response_data['status'] of send_capture_command
OnResponse(s, response_data) ==
    IF "status" \notin DOMAIN response_data
    THEN Return(s, Failure(ErrKey), "malformed")
    ELSE IF response_data["status"] = "success"
         THEN IF receive_images
              THEN /\ tpc' = [tpc EXCEPT ![s] = "size"]
                   /\ UNCHANGED << ret, sock, cause, size_line >>
              ELSE Return(s, SuccessNoImage, "no image")
         ELSE Return(s, Failure(Get(response_data, "error", ErrUnknown)), "error")

\* sock.send(command); response = sock.recv(1024).decode().strip();
\* response_data = json.loads(response); the branch on its status
Command(s) ==
    /\ tpc[s] = "command"
    /\ \/ Return(s, Failure(ErrReset), "reset")
       \/ Return(s, Failure(ErrTimeout), "timeout")
       \/ \E response \in ResponseTexts :
            LET parsed == JsonLoads(response)
            IN  IF parsed.ok
                THEN OnResponse(s, parsed.value)
                ELSE Return(s, Failure(ErrJson), "malformed")
    /\ UNCHANGED << globals, coordinator, history, file_size, bytes_received >>

\* size_data = sock.recv(1024).decode().strip(); file_size = int(size_data);
\* sock.send("READY"); received_data = b""; bytes_received = 0
ReceiveSize(s) ==
    /\ tpc[s] = "size"
    /\ \/ /\ Return(s, Failure(ErrTimeout), "timeout")
          /\ UNCHANGED << file_size, bytes_received >>
       \/ \E line \in SizeTexts :
            LET parsed == ParseInt(Strip(line))
            IN  IF ~parsed.ok
                THEN /\ Return(s, Failure(ErrValue), "bad size")
                     /\ UNCHANGED << file_size, bytes_received >>
                ELSE \/ /\ file_size' = [file_size EXCEPT ![s] = parsed.value]
                        /\ bytes_received' = [bytes_received EXCEPT ![s] = 0]
                        /\ size_line' = [size_line EXCEPT ![s] = line]
                        /\ tpc' = [tpc EXCEPT ![s] = "loop"]
                        /\ UNCHANGED << ret, sock, cause >>
                     \/ /\ file_size' = [file_size EXCEPT ![s] = parsed.value]
                        /\ Return(s, Failure(ErrReset), "reset")
                        /\ UNCHANGED bytes_received
    /\ UNCHANGED << globals, coordinator, history >>

\* the size argument of the recv in the transfer loop
RecvRequest(size, received) == Min(RecvBufSize, size - received)

\* one pass of: while bytes_received < file_size: chunk = sock.recv(...)
ReceiveChunk(s) ==
    /\ tpc[s] = "loop"
    /\ bytes_received[s] < file_size[s]
    /\ \/ /\ Return(s, Failure(ErrTimeout), "timeout")
          /\ UNCHANGED bytes_received
       \/ \* if not chunk: break (the peer closed the stream)
          /\ tpc' = [tpc EXCEPT ![s] = "check"]
          /\ cause' = [cause EXCEPT ![s] = "short"]
          /\ UNCHANGED << ret, sock, bytes_received, size_line >>
       \/ \E n \in 1..Min(RecvRequest(file_size[s], bytes_received[s]), MaxChunk) :
            /\ bytes_received' = [bytes_received EXCEPT ![s] = bytes_received[s] + n]
            /\ UNCHANGED << ret, sock, cause, size_line, tpc >>
    /\ UNCHANGED << globals, coordinator, history, file_size >>

\* the while condition is false
LoopExit(s) ==
    /\ tpc[s] = "loop"
    /\ ~(bytes_received[s] < file_size[s])
    /\ tpc' = [tpc EXCEPT ![s] = "check"]
    /\ cause' = [cause EXCEPT ![s] =
                   IF file_size[s] < 0 THEN "bad size"
                   ELSE IF bytes_received[s] = file_size[s] THEN "full" ELSE "over"]
    /\ UNCHANGED << globals, coordinator, history, file_size, bytes_received,
                    ret, sock, size_line >>

\* faulty variant: any transfer that did not overrun counts as complete
TransferCompleteLoose(received, size) == received <= size

\* if bytes_received == file_size
TransferComplete(received, size) == received = size

\* faulty variant: the received bytes are written to the file before the length test
FinishReceiveWritesFirst(s) ==
    /\ tpc[s] = "check"
    /\ dir' = WriteFile(dir, Filename(s), bytes_received[s])
    /\ IF TransferComplete(bytes_received[s], file_size[s])
       THEN Return(s, Success(s, file_size[s]), cause[s])
       ELSE Return(s, Failure(ErrIncomplete), cause[s])
    /\ UNCHANGED << result, processing_complete, coordinator, history,
                    file_size, bytes_received >>

\* the end of receive_image_from_slave: write the file and return success,
\* or return "Incomplete transfer"
FinishReceive(s) ==
    /\ tpc[s] = "check"
    /\ IF TransferComplete(bytes_received[s], file_size[s])
       THEN /\ dir' = WriteFile(dir, Filename(s), bytes_received[s])
            /\ Return(s, Success(s, file_size[s]), cause[s])
       ELSE /\ Return(s, Failure(ErrIncomplete), cause[s])
            /\ UNCHANGED dir
    /\ UNCHANGED << result, processing_complete, coordinator, history,
                    file_size, bytes_received >>

\* faulty variant: the closure reads the loop variable of the enclosing for loop
ResultKeyLateBinding(slave_id) == NumSlaves

\* the key capture_with_result stores its result under
ResultKey(slave_id) == slave_id

\* results[slave_id] = result, and the task ends (its locals with it)
StoreResult(s) ==
    /\ tpc[s] = "store"
    /\ results' = [k \in DOMAIN results \cup { ResultKey(s) } |->
                     IF k = ResultKey(s) THEN ret[s] ELSE results[k]]
    /\ stores' = [stores EXCEPT ![ResultKey(s)] = stores[ResultKey(s)] + 1]
    /\ tpc' = [tpc EXCEPT ![s] = "done"]
    /\ ret' = [ret EXCEPT ![s] = None]
    /\ file_size' = [file_size EXCEPT ![s] = 0]
    /\ bytes_received' = [bytes_received EXCEPT ![s] = 0]
    /\ size_line' = [size_line EXCEPT ![s] = << >>]
    /\ UNCHANGED << globals, cpc, loop_pos, image_files, process_results,
                    sock, cause, pubs, clears, process_calls >>

Task(s) ==
    \/ Connect(s)
    \/ Command(s)
    \/ ReceiveSize(s)
    \/ ReceiveChunk(s)
    \/ LoopExit(s)
    \/ FinishReceive(s)
    \/ StoreResult(s)

(***************************************************************************)
(* The coordinator thread: write_callback -> send_capture_to_all_slaves -> *)
(* process_image_data                                                      *)
(***************************************************************************)

\* update_ble_result(new_result)
update_ble_result(new_result) ==
    /\ result' = new_result
    /\ processing_complete' = TRUE
    /\ pubs' = Append(pubs, new_result)

tasks == << tpc, sock, file_size, bytes_received, ret, cause, size_line >>

\* write_callback(value, options) with command "capture": the capture thread
\* is created.  Any other command starts nothing.
write_callback(command) ==
    /\ cpc = "idle"
    /\ IF command = "capture"
       THEN /\ processing_complete' = FALSE
            /\ cpc' = "begin"
            /\ UNCHANGED << result, dir, loop_pos, results, image_files,
                            process_results, tasks, history >>
       ELSE UNCHANGED vars

\* faulty variant: the threads are started before anything is published
BeginCycleUnpublished ==
    /\ cpc = "begin"
    /\ results' = << >>
    /\ loop_pos' = 1
    /\ cpc' = "start"
    /\ UNCHANGED << globals, image_files, process_results, tasks, history >>

\* threads = []; results = {}; update_ble_result("Processing started...")
BeginCycle ==
    /\ cpc = "begin"
    /\ results' = << >>
    /\ update_ble_result(MsgStarted)
    /\ loop_pos' = 1
    /\ cpc' = "start"
    /\ UNCHANGED << dir, image_files, process_results, tasks, stores, clears, process_calls >>

\* for slave_id, slave_host in SLAVE_HOSTS.items(): ... thread.start()
StartTask ==
    /\ cpc = "start"
    /\ IF loop_pos \in SLAVE_HOSTS
       THEN /\ tpc' = [tpc EXCEPT ![loop_pos] = "connect"]
            /\ loop_pos' = loop_pos + 1
            /\ UNCHANGED cpc
       ELSE /\ cpc' = "join"
            /\ loop_pos' = 1
            /\ UNCHANGED tpc
    /\ UNCHANGED << globals, results, image_files, process_results, sock,
                    file_size, bytes_received, ret, cause, size_line, history >>

\* faulty variant: the coordinator does not wait for the thread
JoinableAlways(s) == TRUE

\* thread.join() returns once that thread has ended
Joinable(s) == tpc[s] = "done"

\* for thread in threads: thread.join()
JoinTask ==
    /\ cpc = "join"
    /\ IF loop_pos \in SLAVE_HOSTS
       THEN /\ Joinable(loop_pos)
            /\ loop_pos' = loop_pos + 1
            /\ UNCHANGED cpc
       ELSE /\ cpc' = "decide"
            /\ loop_pos' = 0
    /\ UNCHANGED << globals, results, image_files, process_results, tasks, history >>

\* faulty variant: every recorded result counts as a transfer
AllTransfers(res) == DOMAIN res

\* successful_transfers = [r for r in results.values() if r.get('success', False)]
\* (the keys of the entries selected)
SuccessfulTransfers(res) == { k \in DOMAIN res : Get(res[k], "success", FALSE) }

\* faulty variant: the empty cycle reports an empty complete report
NoSuccessStatusEmptyReport == CompleteReport(<< >>)

\* what the cycle publishes when successful_transfers is empty
NoSuccessStatus == MsgNoImagesReceived

\* faulty variant: the progress text is not published
DecideSilent ==
    /\ cpc = "decide"
    /\ IF SuccessfulTransfers(results) # {}
       THEN /\ cpc' = "list"
            /\ UNCHANGED << result, processing_complete, pubs >>
       ELSE /\ update_ble_result(NoSuccessStatus)
            /\ cpc' = "return"
    /\ UNCHANGED << dir, loop_pos, results, image_files, process_results,
                    tasks, stores, clears, process_calls >>

\* if successful_transfers: ... else: update_ble_result("No images received")
Decide ==
    /\ cpc = "decide"
    /\ IF SuccessfulTransfers(results) # {}
       THEN /\ update_ble_result(MsgReceived)
            /\ cpc' = "list"
       ELSE /\ update_ble_result(NoSuccessStatus)
            /\ cpc' = "return"
    /\ UNCHANGED << dir, loop_pos, results, image_files, process_results,
                    tasks, stores, clears, process_calls >>

\* f.lower().endswith(('.jpg', '.jpeg', '.png'))
IsImageName(name) == name[3] \in { ".jpg", ".jpeg", ".png" }

\* all orders os.listdir can return the names of S in
Orders(S) ==
    { q \in [1..Cardinality(S) -> S] : \A i, j \in 1..Cardinality(S) : q[i] = q[j] => i = j }

\* the order process_image_data visits the listed names in
ListingOrders(names) == Orders(names)

\* process_results = []; image_files = [f for f in os.listdir(folder_path) if ...];
\* if not image_files: update_ble_result("No images to process"); return []
ListImages ==
    /\ cpc = "list"
    /\ process_results' = << >>
    /\ \E listing \in ListingOrders({ f.name : f \in { g \in dir : IsImageName(g.name) } }) :
         /\ image_files' = listing
         /\ IF listing = << >>
            THEN /\ update_ble_result(MsgNoImagesToProcess)
                 /\ cpc' = "clear"
                 /\ UNCHANGED loop_pos
            ELSE /\ cpc' = "classify"
                 /\ loop_pos' = 1
                 /\ UNCHANGED << result, processing_complete, pubs >>
    /\ UNCHANGED << dir, results, tasks, stores, clears, process_calls >>

\* the lists process(img_path) can return for a decodable frame
ProcessOutputs == { << 1, 0, 2, 0 >>, << 1, 1, 2, 2 >> }

\* process(file_path) on a stored file: it returns a list or raises.
\* cv2.imread yields no frame for an empty file, so process raises on it.
ProcessOutcomes(f) ==
    { [raised |-> TRUE] } \cup
    IF f.size = 0 THEN {} ELSE { [raised |-> FALSE, value |-> l] : l \in ProcessOutputs }

\* faulty variant: an exception of process() leaves the loop over image_files
ProcessFileAborting ==
    /\ cpc = "classify"
    /\ loop_pos \in 1..Len(image_files)
    /\ \E f \in { g \in dir : g.name = image_files[loop_pos] } :
       \E out \in ProcessOutcomes(f) :
         /\ process_calls' = Append(process_calls, [file |-> f.name, ok |-> ~out.raised])
         /\ process_results' =
              IF out.raised THEN process_results ELSE Append(process_results, out.value)
         /\ loop_pos' = IF out.raised THEN Len(image_files) + 1 ELSE loop_pos + 1
    /\ UNCHANGED << globals, cpc, results, image_files, tasks, stores, pubs, clears >>

\* for filename in image_files: try: result = process(file_path);
\* process_results.append(result) except Exception: print(...)
ProcessFile ==
    /\ cpc = "classify"
    /\ loop_pos \in 1..Len(image_files)
    /\ \E f \in { g \in dir : g.name = image_files[loop_pos] } :
       \E out \in ProcessOutcomes(f) :
         /\ process_calls' = Append(process_calls, [file |-> f.name, ok |-> ~out.raised])
         /\ process_results' =
              IF out.raised THEN process_results ELSE Append(process_results, out.value)
    /\ loop_pos' = loop_pos + 1
    /\ UNCHANGED << globals, cpc, results, image_files, tasks, stores, pubs, clears >>

\* faulty variant: the report is published without testing process_results
ReportTextUnchecked(rs) == CompleteReport(rs)

\* faulty variant: a cycle without a classified image reports that no
\* image was received
ReportTextNothingReceived(rs) ==
    IF rs # << >> THEN CompleteReport(rs) ELSE MsgNoImagesReceived

\* the text published after the loop over image_files
ReportText(rs) == IF rs # << >> THEN CompleteReport(rs) ELSE MsgNoValidResults

\* if process_results: update_ble_result(json.dumps({...})) else: "No valid results"
PublishReport ==
    /\ cpc = "classify"
    /\ loop_pos = Len(image_files) + 1
    /\ update_ble_result(ReportText(process_results))
    /\ cpc' = "clear"
    /\ UNCHANGED << dir, loop_pos, results, image_files, process_results,
                    tasks, stores, clears, process_calls >>

\* clear_image_folder(folder_path): every file of the folder is removed
clear_image_folder(d) == {}

\* finally: clear_image_folder(folder_path)
ClearFolder ==
    /\ cpc = "clear"
    /\ dir' = clear_image_folder(dir)
    /\ clears' = clears + 1
    /\ cpc' = "return"
    /\ UNCHANGED << result, processing_complete, loop_pos, results, image_files,
                    process_results, tasks, stores, pubs, process_calls >>

\* send_capture_to_all_slaves returns: the capture thread and its locals end
EndCycle ==
    /\ cpc = "return"
    /\ cpc' = "idle"
    /\ loop_pos' = 0
    /\ results' = << >>
    /\ image_files' = << >>
    /\ process_results' = << >>
    /\ tpc' = [s \in SLAVE_HOSTS |-> "unstarted"]
    /\ sock' = [s \in SLAVE_HOSTS |-> "none"]
    /\ file_size' = [s \in SLAVE_HOSTS |-> 0]
    /\ bytes_received' = [s \in SLAVE_HOSTS |-> 0]
    /\ ret' = [s \in SLAVE_HOSTS |-> None]
    /\ cause' = [s \in SLAVE_HOSTS |-> "none"]
    /\ size_line' = [s \in SLAVE_HOSTS |-> << >>]
    /\ stores' = [s \in SLAVE_HOSTS |-> 0]
    /\ pubs' = << >>
    /\ clears' = 0
    /\ process_calls' = << >>
    /\ UNCHANGED globals

Next ==
    \/ (\E command \in { "capture", "cw" } : write_callback(command)) /\ UNCHANGED << responder, overlap, classifier, spi >>
    \/ BeginCycle /\ UNCHANGED << responder, overlap, classifier, spi >>
    \/ StartTask /\ UNCHANGED << responder, overlap, classifier, spi >>
    \/ JoinTask /\ UNCHANGED << responder, overlap, classifier, spi >>
    \/ Decide /\ UNCHANGED << responder, overlap, classifier, spi >>
    \/ ListImages /\ UNCHANGED << responder, overlap, classifier, spi >>
    \/ ProcessFile /\ UNCHANGED << responder, overlap, classifier, spi >>
    \/ PublishReport /\ UNCHANGED << responder, overlap, classifier, spi >>
    \/ ClearFolder /\ UNCHANGED << responder, overlap, classifier, spi >>
    \/ EndCycle /\ UNCHANGED << responder, overlap, classifier, spi >>
    \/ (\E s \in SLAVE_HOSTS : Task(s)) /\ UNCHANGED << responder, overlap, classifier, spi >>

Spec == Init /\ [][Next]_all_vars

\* the steps of the capture thread, and the steps of the thread of node s
CycleStep ==
    (BeginCycle \/ StartTask \/ JoinTask \/ Decide \/ ListImages \/ ProcessFile
       \/ PublishReport \/ ClearFolder \/ EndCycle)
       /\ UNCHANGED << responder, overlap, classifier, spi >>
TaskStep(s) == Task(s) /\ UNCHANGED << responder, overlap, classifier, spi >>

\* every started thread keeps running: sock.settimeout(TIMEOUT) makes every
\* socket call of a task return or raise, and nothing else in a cycle waits.
\* A write of the BLE client is not forced.
SpecFair ==
    /\ Spec
    /\ WF_all_vars(CycleStep)
    /\ \A s \in SLAVE_HOSTS : WF_all_vars(TaskStep(s))

(***************************************************************************)
(* Properties                                                              *)
(***************************************************************************)
IsResultDict(r) == "success" \in DOMAIN r /\ r.success \in BOOLEAN
IsSuccess(r) == IsResultDict(r) /\ r.success
IsFailure(r) == IsResultDict(r) /\ ~r.success

\* the nodes whose recorded result is a success
Succeeded ==
    { s \in DOMAIN results : IsResultDict(results[s]) /\ results[s].success }

\* the coordinator is past its join loop
AfterJoin == cpc \in { "decide", "list", "classify", "clear", "return" }

Running(s) == tpc[s] \in { "connect", "command", "size", "loop", "check", "store" }

IsComplete(t) == "status" \in DOMAIN t /\ t.status = "complete"

\* C1: every node's job ends in exactly one result dict: a task that returns
\* holds a result dict on every path, a finished task has stored it exactly
\* once under its own id, an unfinished one has stored nothing, and after the
\* join the cycle holds one entry for every configured node.
C1_OneResultPerNode ==
    /\ \A s \in SLAVE_HOSTS :
         /\ stores[s] <= 1
         /\ tpc[s] = "store" => IsResultDict(ret[s])
         /\ tpc[s] = "done" =>
              stores[s] = 1 /\ s \in DOMAIN results /\ IsResultDict(results[s])
         /\ tpc[s] # "done" => stores[s] = 0 /\ s \notin DOMAIN results
    /\ AfterJoin => DOMAIN results = SLAVE_HOSTS

\* a cycle past its join in which one node timed out and another succeeded
C1_Witness ==
    /\ cpc = "decide"
    /\ \E s, t \in SLAVE_HOSTS :
         /\ cause[s] = "timeout" /\ ~results[s].success
         /\ cause[t] = "full" /\ results[t].success

\* C2: a node's failure neither blocks nor cancels another node: a running
\* task can always take its next step whatever the other tasks did, and after
\* the join every node whose peer delivered the whole declared image is
\* recorded as a success, whatever happened to the other nodes.
C2_FailureIsContained ==
    /\ \A s \in SLAVE_HOSTS : Running(s) => ENABLED Task(s)
    /\ AfterJoin =>
         \A s \in SLAVE_HOSTS :
           cause[s] = "full" => s \in DOMAIN results /\ IsSuccess(results[s])

\* the first node was refused, the last one delivered its image and is a success
C2_Witness ==
    /\ AfterJoin
    /\ cause[1] = "refused"
    /\ cause[NumSlaves] = "full"
    /\ results[NumSlaves].success

\* C3: the coordinator aggregates only after the join: whenever an image has
\* been handed to the classifier, or anything after "Processing started..."
\* has been published, or process_image_data is running, every node's task has
\* ended and its result is recorded.
C3_AggregateAfterJoin ==
    ( \/ process_calls # << >>
      \/ \E i \in DOMAIN pubs : pubs[i] # MsgStarted
      \/ cpc \in { "list", "classify", "clear", "return" } )
    => \A s \in SLAVE_HOSTS : tpc[s] = "done" /\ s \in DOMAIN results

\* the classifier has run on an image of this cycle
C3_Witness == cpc = "classify" /\ process_calls # << >>

\* C4: when no node succeeded, the classifier is never invoked,
\* process_image_data is not entered, and the cycle ends having published
\* "Processing started..." and then "No images received".
C4_NoSuccessNoData ==
    (AfterJoin /\ Succeeded = {}) =>
        /\ process_calls = << >>
        /\ cpc \in { "decide", "return" }
        /\ cpc = "return" =>
             result = MsgNoImagesReceived /\ pubs = << MsgStarted, MsgNoImagesReceived >>

\* a cycle ended with every node failed
C4_Witness ==
    /\ cpc = "return"
    /\ DOMAIN results = SLAVE_HOSTS
    /\ Succeeded = {}
    /\ result = MsgNoImagesReceived

\* C5: a report with status "complete" is published by a cycle only if a node
\* of that cycle has a successful result.
C5_CompleteNeedsSuccess ==
    /\ \A i \in DOMAIN pubs : IsComplete(pubs[i]) => Succeeded # {}
    /\ (cpc \notin { "idle", "begin" } /\ IsComplete(result)) => Succeeded # {}

\* a complete report published by a cycle with exactly one successful node
C5_Witness ==
    /\ cpc = "return"
    /\ IsComplete(result)
    /\ Cardinality(Succeeded) = 1

\* the slave a stored file was received from
SlaveOfFile(name) == name[2]

OkCall(c) == c.ok

\* the files behind the entries of process_results, in the order of the entries
EntryFiles == SelectSeq(process_calls, OkCall)

\* C6 (as claimed): when all N nodes succeed and every image classifies, the
\* published report has exactly N entries and the entry of node id i is found
\* under i (the report carries no ids, so: at position i).
C6_AllSucceedKeyedById ==
    ( /\ cpc = "return"
      /\ Succeeded = SLAVE_HOSTS
      /\ Len(process_calls) = NumSlaves
      /\ \A i \in DOMAIN process_calls : process_calls[i].ok )
    => /\ IsComplete(result)
       /\ Len(result.results) = NumSlaves
       /\ \A i \in SLAVE_HOSTS : SlaveOfFile(EntryFiles[i].file) = i

\* C7 (as claimed): the entries of a published complete report are in
\* ascending order of the node ids they come from.
C7_ReportInNodeIdOrder ==
    (cpc \in { "clear", "return" } /\ IsComplete(result)) =>
        \A i, j \in DOMAIN EntryFiles :
          i < j => SlaveOfFile(EntryFiles[i].file) < SlaveOfFile(EntryFiles[j].file)

\* a cycle that ended with some nodes succeeded and some failed
MixedCycleEnded ==
    cpc = "return" /\ Succeeded # {} /\ Succeeded # SLAVE_HOSTS /\ DOMAIN results = SLAVE_HOSTS

ResultOf(s) ==
    IF tpc[s] = "store" THEN ret[s]
    ELSE IF s \in DOMAIN results THEN results[s] ELSE None

HasFile(s) == \E f \in dir : f.name = Filename(s)

\* C9: the receiver never holds more bytes than the declared length; when the
\* peer closes the stream before the declared length arrived, no file is
\* written and the task returns, and records, the failure "Incomplete
\* transfer"; a success is returned only with exactly as many bytes as the
\* peer's length line declared, and the stored file has that length.
C9_NoTruncatedSuccess ==
    \A s \in SLAVE_HOSTS :
      /\ tpc[s] \in { "loop", "check" } =>
           bytes_received[s] <= file_size[s] \/ bytes_received[s] = 0
      /\ cause[s] = "short" =>
           /\ ~HasFile(s)
           /\ tpc[s] \in { "check", "store" } => bytes_received[s] < file_size[s]
           /\ tpc[s] \in { "store", "done" } => ResultOf(s) = Failure(ErrIncomplete)
      /\ (tpc[s] = "store" /\ IsSuccess(ret[s])) =>
           /\ cause[s] = "full"
           /\ size_line[s] = SizeLine(bytes_received[s])
           /\ ret[s].size = bytes_received[s]
      /\ IsSuccess(ResultOf(s)) =>
           /\ cause[s] = "full"
           /\ cpc # "return" =>
                \E f \in dir : f.name = Filename(s) /\ f.size = ResultOf(s).size

\* a peer declared 2 bytes, sent 1 and closed: the task returns the failure
C9_Witness ==
    \E s \in SLAVE_HOSTS :
      /\ tpc[s] = "store"
      /\ cause[s] = "short"
      /\ file_size[s] = 2
      /\ bytes_received[s] = 1
      /\ ret[s] = Failure(ErrIncomplete)

\* C10: a failure result consists of the success flag and the error text only
\* (no file path, file name, size or data), and no image file of that node is
\* in the image directory, whatever the cause of the failure.
C10_FailureCarriesNoImage ==
    \A s \in SLAVE_HOSTS :
      IsFailure(ResultOf(s)) =>
        /\ DOMAIN ResultOf(s) = { "success", "error" }
        /\ ~HasFile(s)

\* a node returns a failure after receiving part of its image while the image of another
\* node is stored in the directory
C10_Witness ==
    \E s, t \in SLAVE_HOSTS :
      /\ tpc[s] = "store"
      /\ IsFailure(ret[s])
      /\ cause[s] = "short"
      /\ bytes_received[s] > 0
      /\ HasFile(t)

(***************************************************************************)
(* The TCP responder of one node: WiFiSlaveCamera of                       *)
(* src/TCP_communication/slave_TCP.py.  start_server accepts connections   *)
(* and starts one handle_client thread per connection.  The peer of a      *)
(* connection is a master running send_capture_command /                   *)
(* receive_image_from_slave, or any other client: it may write any request *)
(* and may close at any moment (ping, timeout, error).  Every capture is   *)
(* taken to name its own file (the name carries the time in seconds).      *)
(***************************************************************************)

\* the dicts capture_image and handle_client build
CaptureSuccess(path) ==
    [status |-> "success", message |-> "m", filename |-> "f", filepath |-> path]
CaptureError == [status |-> "error", message |-> "m", error |-> ErrCapture]
StatusRecord == [status |-> "success", message |-> "m", slave_id |-> 1, uptime |-> "u"]
UnknownCommand == [status |-> "error", message |-> "m"]

\* json.dumps(d) + '\n' for the dicts above (the receiver strips the newline)
JsonDumps(d) ==
    CASE "filepath" \in DOMAIN d -> TxtSuccess
      [] "error" \in DOMAIN d -> TxtError
      [] "uptime" \in DOMAIN d -> TxtStatus
      [] OTHER -> TxtErrorNoDetail

\* what the handler writes on its socket
Record(text) == [kind |-> "record", text |-> text]
Length(n) == [kind |-> "length", line |-> SizeLine(n)]
Payload(n) == [kind |-> "payload", bytes |-> n]

PeerOpen(c) == peer[c] \in { "connected", "response", "size", "loop" }

\* client_socket.recv(1024).decode().strip(): the next text of the peer, or
\* the empty text once the peer has closed; with neither, the call blocks
\* (the accepted socket has no timeout)
Incoming(c) ==
    IF inbox[c] # << >> THEN { Head(inbox[c]) }
    ELSE IF PeerOpen(c) THEN { } ELSE { TxtEmpty }

\* client_socket.send / sendall: TRUE when the bytes were taken, FALSE when
\* the call raised, which it can only do once the peer has closed
SendOk(c) == IF PeerOpen(c) THEN { TRUE } ELSE { TRUE, FALSE }

handler == << hpc, client_socket, client_command, capture_result, file_data, ack, sent >>

\* faulty variant: the handler thread ends and leaves its socket open
EndWithoutClose(c) ==
    /\ hpc' = [hpc EXCEPT ![c] = "done"]
    /\ UNCHANGED client_socket

\* finally: client_socket.close(), and the handler thread ends
Close(c) ==
    /\ client_socket' = [client_socket EXCEPT ![c] = "closed"]
    /\ hpc' = [hpc EXCEPT ![c] = "done"]

\* start_server: bind, listen, running = True; a failing bind ends in cleanup
StartServer ==
    /\ spc = "created"
    /\ spc' \in { "accepting", "stopped" }
    /\ UNCHANGED << image_dir, handler, inbox, written, peer, request, seen,
                    camera, receiving >>

\* faulty variant: the status command runs a capture as well
AcceptCapturingOnStatus(c) ==
    /\ spc = "accepting"
    /\ hpc[c] = "none"
    /\ peer[c] # "idle"
    /\ \E data \in Incoming(c), ok \in SendOk(c) :
         LET loaded == JsonLoads(data)
             action == Get(loaded.value, "action", "None")
             answer == IF action = "status" THEN StatusRecord ELSE UnknownCommand
         IN  /\ inbox' = [inbox EXCEPT ![c] = IF @ = << >> THEN @ ELSE Tail(@)]
             /\ IF data = TxtEmpty \/ ~loaded.ok
                THEN /\ Close(c)
                     /\ UNCHANGED << client_command, written >>
                ELSE /\ client_command' = [client_command EXCEPT ![c] = loaded.value]
                     /\ IF action \in { "capture", "status" }
                        THEN /\ hpc' = [hpc EXCEPT ![c] = "capturing"]
                             /\ client_socket' = [client_socket EXCEPT ![c] = "open"]
                             /\ UNCHANGED written
                        ELSE /\ written' = [written EXCEPT ![c] =
                                   IF ok THEN Append(@, Record(JsonDumps(answer))) ELSE @]
                             /\ Close(c)
    /\ UNCHANGED << spc, image_dir, capture_result, file_data, ack, sent, peer,
                    request, seen, camera, receiving >>

\* faulty variant: a connection closed without a command counts as a capture
AcceptCapturingOnEmpty(c) ==
    /\ spc = "accepting"
    /\ hpc[c] = "none"
    /\ peer[c] # "idle"
    /\ \E data \in Incoming(c), ok \in SendOk(c) :
         LET loaded == JsonLoads(data)
             action == Get(loaded.value, "action", "None")
             answer == IF action = "status" THEN StatusRecord ELSE UnknownCommand
         IN  /\ inbox' = [inbox EXCEPT ![c] = IF @ = << >> THEN @ ELSE Tail(@)]
             /\ IF data # TxtEmpty /\ ~loaded.ok
                THEN /\ Close(c)
                     /\ UNCHANGED << client_command, written >>
                ELSE /\ client_command' = [client_command EXCEPT ![c] =
                            IF data = TxtEmpty THEN JsonLoads(CmdCaptureOnly).value
                            ELSE loaded.value]
                     /\ IF data = TxtEmpty \/ action = "capture"
                        THEN /\ hpc' = [hpc EXCEPT ![c] = "capturing"]
                             /\ client_socket' = [client_socket EXCEPT ![c] = "open"]
                             /\ UNCHANGED written
                        ELSE /\ written' = [written EXCEPT ![c] =
                                   IF ok THEN Append(@, Record(JsonDumps(answer))) ELSE @]
                             /\ Close(c)
    /\ UNCHANGED << spc, image_dir, capture_result, file_data, ack, sent, peer,
                    request, seen, camera, receiving >>

\* start_server: client_socket, client_address = accept() and
\* client_thread.start(); then handle_client up to the branch on
\* command.get('action'): capture_image and with it
\* self.camera.capture_image(filename=filepath) is entered, or the status or
\* the unknown-command answer is written.  The thread waits in its first
\* recv until the peer has written or closed.
Accept(c) ==
    /\ spc = "accepting"
    /\ hpc[c] = "none"
    /\ peer[c] # "idle"
    /\ \E data \in Incoming(c), ok \in SendOk(c) :
         LET loaded == JsonLoads(data)
             action == Get(loaded.value, "action", "None")
             answer == IF action = "status" THEN StatusRecord ELSE UnknownCommand
         IN  /\ inbox' = [inbox EXCEPT ![c] = IF @ = << >> THEN @ ELSE Tail(@)]
             /\ IF data = TxtEmpty \/ ~loaded.ok
                THEN /\ Close(c)
                     /\ UNCHANGED << client_command, written >>
                ELSE /\ client_command' = [client_command EXCEPT ![c] = loaded.value]
                     /\ IF action = "capture"
                        THEN /\ hpc' = [hpc EXCEPT ![c] = "capturing"]
                             /\ client_socket' = [client_socket EXCEPT ![c] = "open"]
                             /\ UNCHANGED written
                        ELSE /\ written' = [written EXCEPT ![c] =
                                   IF ok THEN Append(@, Record(JsonDumps(answer))) ELSE @]
                             /\ Close(c)
    /\ UNCHANGED << spc, image_dir, capture_result, file_data, ack, sent, peer,
                    request, seen, camera, receiving >>

\* CameraModule.capture_image: it saves the image, or it raises (the calls
\* before its try), or it prints the error and returns None (its except)
CameraOutcomes == { "raised", "returned None", "saved" }

\* the except clause of capture_image is taken when the camera call raises
CaptureReturn(c, outcome) ==
    IF outcome = "raised" THEN CaptureError ELSE CaptureSuccess(c)

\* capture_image returns to handle_client
EndCapture(c) ==
    /\ hpc[c] = "capturing"
    /\ \E outcome \in CameraOutcomes :
         /\ camera' = [camera EXCEPT ![c] = outcome]
         /\ image_dir' = IF outcome = "saved" THEN image_dir \cup { c } ELSE image_dir
         /\ capture_result' = [capture_result EXCEPT ![c] = CaptureReturn(c, outcome)]
    /\ hpc' = [hpc EXCEPT ![c] = "respond"]
    /\ UNCHANGED << spc, client_socket, client_command, file_data, ack, sent, inbox, written,
                    peer, request, seen, receiving >>

\* result['status'] == 'success' and command.get('send_image', False)
TransferFollows(res, cmd) == res.status = "success" /\ Get(cmd, "send_image", FALSE)

\* client_socket.send(response.encode()) and the branch to send_image_to_client
Respond(c) ==
    /\ hpc[c] = "respond"
    /\ \E ok \in SendOk(c) :
         IF ok
         THEN /\ written' = [written EXCEPT ![c] =
                    Append(@, Record(JsonDumps(capture_result[c])))]
              /\ IF TransferFollows(capture_result[c], client_command[c])
                 THEN /\ hpc' = [hpc EXCEPT ![c] = "send_image"]
                      /\ UNCHANGED client_socket
                 ELSE Close(c)
         ELSE /\ Close(c)
              /\ UNCHANGED written
    /\ UNCHANGED << spc, image_dir, client_command, capture_result, file_data, ack, sent,
                    inbox, peer, request, seen, camera, receiving >>

\* send_image_to_client returns value (closing is handle_client's finally)
Returned(value) == [returned |-> value]
SendReturn(c, value) ==
    /\ sent' = [sent EXCEPT ![c] = Returned(value)]
    /\ Close(c)

\* send_image_to_client: open(filepath) raises when the file is missing;
\* file_data = f.read(); send(f"{file_size}\n").  The length of the image
\* becomes known here.
SendLength(c) ==
    /\ hpc[c] = "send_image"
    /\ \E ok \in SendOk(c), n \in 1..MaxLen :
         IF capture_result[c].filepath \in image_dir
         THEN /\ file_data' = [file_data EXCEPT ![c] = n]
              /\ IF ok
                 THEN /\ written' = [written EXCEPT ![c] = Append(@, Length(n))]
                      /\ hpc' = [hpc EXCEPT ![c] = "ack"]
                      /\ UNCHANGED << client_socket, sent >>
                 ELSE /\ SendReturn(c, FALSE)
                      /\ UNCHANGED written
         ELSE /\ SendReturn(c, FALSE)
              /\ UNCHANGED << written, file_data >>
    /\ UNCHANGED << spc, image_dir, client_command, capture_result, ack, inbox,
                    peer, request, seen, camera, receiving >>

\* faulty variant: the payload is written whatever the acknowledgement
AcknowledgedAny(a) == TRUE

\* the payload may be written after this acknowledgement
Acknowledged(a) == a = TxtReady

\* ack = client_socket.recv(1024).decode().strip(); if ack == "READY"
RecvAck(c) ==
    /\ hpc[c] = "ack"
    /\ \E text \in Incoming(c) :
         /\ ack' = [ack EXCEPT ![c] = text]
         /\ inbox' = [inbox EXCEPT ![c] = IF @ = << >> THEN @ ELSE Tail(@)]
         /\ IF Acknowledged(text)
            THEN /\ hpc' = [hpc EXCEPT ![c] = "payload"]
                 /\ UNCHANGED << client_socket, sent >>
            ELSE SendReturn(c, FALSE)
    /\ UNCHANGED << spc, image_dir, client_command, capture_result, file_data, written,
                    peer, request, seen, camera, receiving >>

\* client_socket.sendall(file_data): every byte is written, or the call
\* raises after a part of them (all but the last byte)
SendPayload(c) ==
    /\ hpc[c] = "payload"
    /\ LET n == file_data[c]
       IN  \E ok \in SendOk(c) :
             IF ok
             THEN /\ written' = [written EXCEPT ![c] = Append(@, Payload(n))]
                  /\ SendReturn(c, TRUE)
             ELSE /\ written' = [written EXCEPT ![c] =
                       IF n > 1 THEN Append(@, Payload(n - 1)) ELSE @]
                  /\ SendReturn(c, FALSE)
    /\ UNCHANGED << spc, image_dir, client_command, capture_result, file_data, ack, inbox,
                    peer, request, seen, camera, receiving >>

(***************************************************************************)
(* The peer of a connection                                                *)
(***************************************************************************)
link == << inbox, written >>

\* sock.connect((slave_host, SLAVE_PORT)) succeeds while the node listens
PeerConnect(c) ==
    /\ peer[c] = "idle"
    /\ spc = "accepting"
    /\ peer' = [peer EXCEPT ![c] = "connected"]
    /\ UNCHANGED << spc, image_dir, handler, link, request, seen, camera, receiving >>

\* sock.send(json.dumps(command).encode()): a master writes CmdCapture
\* (send_image: receive_image) or CmdCaptureOnly; other clients write any text
PeerSend(c) ==
    /\ peer[c] = "connected"
    /\ \E text \in RequestTexts :
         /\ request' = [request EXCEPT ![c] = text]
         /\ inbox' = [inbox EXCEPT ![c] = Append(@, text)]
    /\ peer' = [peer EXCEPT ![c] = "response"]
    /\ UNCHANGED << spc, image_dir, handler, written, seen, camera, receiving >>

\* sock.close(): the peer reads nothing more
Closed(c) ==
    /\ peer' = [peer EXCEPT ![c] = "closed"]
    /\ seen' = [seen EXCEPT ![c] = 0]

\* the peer's socket is closed: ping_slaves after connect, a timeout or any
\* other error of send_capture_command / receive_image_from_slave
PeerClose(c) ==
    /\ PeerOpen(c)
    /\ Closed(c)
    /\ UNCHANGED << spc, image_dir, handler, link, request, camera, receiving >>

\* the handler's writes the peer has not read
Unread(c) == SubSeq(written[c], seen[c] + 1, Len(written[c]))

\* one recv(1024) returns the first n unread writes as one text: a response
\* record, or a response record and the length line behind it
ResponseData(ws, n) == IF n = 1 THEN ws[1].text ELSE TxtSuccessAndSize

\* the receive_image argument of send_capture_command is the send_image
\* field of the command it wrote
ReceiveImage(text) == JsonLoads(text).ok /\ Get(JsonLoads(text).value, "send_image", FALSE)

\* faulty variant: the status of the response is not looked at
EntersReceiveUnchecked(response_data, receive_image) == receive_image

\* if response_data['status'] == 'success': if receive_image: ...
EntersReceive(response_data, receive_image) ==
    /\ JsonLoads(response_data).ok
    /\ JsonLoads(response_data).value.status = "success"
    /\ receive_image

\* response = sock.recv(1024).decode().strip(); json.loads(response); the
\* branch of send_capture_command to receive_image_from_slave
PeerResponse(c) ==
    /\ peer[c] = "response"
    /\ \E n \in 1..Min(2, Len(Unread(c))) :
         IF EntersReceive(ResponseData(Unread(c), n), ReceiveImage(request[c]))
         THEN /\ peer' = [peer EXCEPT ![c] = "size"]
              /\ seen' = [seen EXCEPT ![c] = @ + n]
              /\ receiving' = [receiving EXCEPT ![c] = TRUE]
         ELSE /\ Closed(c)
              /\ UNCHANGED receiving
    /\ UNCHANGED << spc, image_dir, handler, link, request, camera >>

\* receive_image_from_slave: size_data = sock.recv(1024); int(size_data);
\* sock.send(b"READY")
PeerSize(c) ==
    /\ peer[c] = "size"
    /\ Len(Unread(c)) > 0
    /\ IF ParseInt(Strip(Unread(c)[1].line)).ok
       THEN /\ inbox' = [inbox EXCEPT ![c] = Append(@, TxtReady)]
            /\ peer' = [peer EXCEPT ![c] = "loop"]
            /\ seen' = [seen EXCEPT ![c] = @ + 1]
       ELSE /\ Closed(c)
            /\ UNCHANGED inbox
    /\ UNCHANGED << spc, image_dir, handler, written, request, camera, receiving >>

\* the receive loop reads what the handler wrote and the socket is closed
PeerLoop(c) ==
    /\ peer[c] = "loop"
    /\ Len(Unread(c)) > 0
    /\ Closed(c)
    /\ UNCHANGED << spc, image_dir, handler, link, request, camera, receiving >>

NextResponder ==
    \/ StartServer /\ UNCHANGED << vars, overlap, classifier, spi >>
    \/ (\E c \in Conns : Accept(c)) /\ UNCHANGED << vars, overlap, classifier, spi >>
    \/ (\E c \in Conns : EndCapture(c)) /\ UNCHANGED << vars, overlap, classifier, spi >>
    \/ (\E c \in Conns : Respond(c)) /\ UNCHANGED << vars, overlap, classifier, spi >>
    \/ (\E c \in Conns : SendLength(c)) /\ UNCHANGED << vars, overlap, classifier, spi >>
    \/ (\E c \in Conns : RecvAck(c)) /\ UNCHANGED << vars, overlap, classifier, spi >>
    \/ (\E c \in Conns : SendPayload(c)) /\ UNCHANGED << vars, overlap, classifier, spi >>
    \/ (\E c \in Conns : PeerConnect(c)) /\ UNCHANGED << vars, overlap, classifier, spi >>
    \/ (\E c \in Conns : PeerSend(c)) /\ UNCHANGED << vars, overlap, classifier, spi >>
    \/ (\E c \in Conns : PeerClose(c)) /\ UNCHANGED << vars, overlap, classifier, spi >>
    \/ (\E c \in Conns : PeerResponse(c)) /\ UNCHANGED << vars, overlap, classifier, spi >>
    \/ (\E c \in Conns : PeerSize(c)) /\ UNCHANGED << vars, overlap, classifier, spi >>
    \/ (\E c \in Conns : PeerLoop(c)) /\ UNCHANGED << vars, overlap, classifier, spi >>

SpecResponder == Init /\ [][NextResponder]_all_vars

\* the steps of the thread serving c, and the steps of its peer
HandlerStep(c) ==
    (Accept(c) \/ EndCapture(c) \/ Respond(c) \/ SendLength(c) \/ RecvAck(c)
       \/ SendPayload(c)) /\ UNCHANGED << vars, overlap, classifier, spi >>
PeerStep(c) ==
    (PeerSend(c) \/ PeerClose(c) \/ PeerResponse(c) \/ PeerSize(c) \/ PeerLoop(c))
       /\ UNCHANGED << vars, overlap, classifier, spi >>

\* the accept loop and every started thread keep running, and every call of
\* a peer on its socket returns or times out (so every peer closes in the end)
SpecResponderFair ==
    /\ SpecResponder
    /\ \A c \in Conns : WF_all_vars(HandlerStep(c)) /\ WF_all_vars(PeerStep(c))

(***************************************************************************)
(* Properties of the responder                                             *)
(***************************************************************************)
\* the length a length line declares
LengthOf(w) == ParseInt(Strip(w.line)).value

\* the handler of c has written a write of this kind
Wrote(c, kind) == \E i \in 1..Len(written[c]) : written[c][i].kind = kind

\* C11: on every connection the payload is written only behind the length
\* line and only after READY was received; it never exceeds the declared
\* length and is exactly the declared length when the transfer returns
\* True; any other acknowledgement ends the transfer with nothing written
\* behind the length line.
C11_HandshakeOrder ==
    \A c \in Conns :
      /\ \A i \in 1..Len(written[c]) :
           written[c][i].kind = "payload" =>
             /\ i > 1
             /\ written[c][i - 1].kind = "length"
             /\ ack[c] = TxtReady
             /\ written[c][i].bytes <= LengthOf(written[c][i - 1])
             /\ sent[c] = Returned(TRUE) =>
                  written[c][i].bytes = LengthOf(written[c][i - 1])
      /\ hpc[c] = "payload" =>
           /\ ack[c] = TxtReady
           /\ written[c][Len(written[c])].kind = "length"
      /\ ack[c] # Unbound => Wrote(c, "length")
      /\ sent[c] = Returned(TRUE) => Wrote(c, "payload")
      /\ (ack[c] # Unbound /\ ack[c] # TxtReady) =>
           /\ sent[c] = Returned(FALSE)
           /\ written[c][Len(written[c])].kind = "length"

\* a transfer has run to its end, and another one was refused its READY
C11_Witness ==
    \E c, d \in Conns :
      /\ sent[c] = Returned(TRUE)
      /\ Wrote(c, "payload")
      /\ ack[d] = TxtEmpty
      /\ sent[d] = Returned(FALSE)

\* the handler of c has entered send_image_to_client
SendSide(c) == hpc[c] \in { "send_image", "ack", "payload" } \/ sent[c] # None

\* the handler of c has answered success to a command that asked for the image
RepliedSuccessWithImage(c) ==
    /\ Wrote(c, "record")
    /\ "status" \in DOMAIN capture_result[c]
    /\ capture_result[c].status = "success"
    /\ "send_image" \in DOMAIN client_command[c]
    /\ client_command[c].send_image

\* both ends of c have finished
Finished(c) == hpc[c] = "done" /\ peer[c] = "closed"

\* C12 as stated: on every finished connection the peer has entered the
\* receive side if and only if the handler has entered the send side.
C12_BothEndsAgree ==
    \A c \in Conns : Finished(c) => (receiving[c] <=> SendSide(c))

\* C12: the handler enters the send side exactly when it has answered
\* success to a command that carried send_image = true, and a peer enters
\* the receive side only on a connection whose handler enters the send side
\* and only when it asked for the image.
C12_TransferAgreement ==
    \A c \in Conns :
      /\ SendSide(c) <=> RepliedSuccessWithImage(c)
      /\ receiving[c] => SendSide(c) /\ request[c] = CmdCapture

\* both ends went through the handshake; on another connection the handler
\* started the transfer for a peer that had given up
C12_Witness ==
    \E c, d \in Conns :
      /\ Finished(c) /\ receiving[c] /\ sent[c] = Returned(TRUE)
      /\ Finished(d) /\ ~receiving[d] /\ SendSide(d)

\* the handlers that are inside self.camera.capture_image
Capturing == { c \in Conns : hpc[c] = "capturing" }

\* C17: at no moment are two capture invocations in progress on the node.
C17_OneCaptureAtATime == Cardinality(Capturing) <= 1

\* the response records the handler of c has written
Records(c) == { i \in 1..Len(written[c]) : written[c][i].kind = "record" }

\* C18: a handler ends exactly with its socket closed, it answers at most
\* one command and nothing behind it, the accept loop keeps accepting
\* whatever happens in a handler, and every connection a client has opened
\* is in the end accepted, handled and closed by its handler.
C18_OneShotAndClosed ==
    /\ [](\A c \in Conns :
            /\ hpc[c] = "done" <=> client_socket[c] = "closed"
            /\ Cardinality(Records(c)) <= 1
            /\ Records(c) \subseteq { 1 }
            /\ hpc[c] # "none" => spc = "accepting")
    /\ \A c \in Conns :
         (peer[c] # "idle") ~> (hpc[c] = "done" /\ client_socket[c] = "closed")

\* a handler has ended on invalid JSON and another on a failed capture, both
\* with their sockets closed, while the loop still accepts
C18_Witness ==
    \E c, d \in Conns :
      /\ request[c] = TxtGarbage /\ hpc[c] = "done" /\ client_socket[c] = "closed"
      /\ camera[d] = "raised" /\ hpc[d] = "done" /\ client_socket[d] = "closed"
      /\ spc = "accepting"

\* C35: a connection whose command is the status command or a command
\* with any other action than capture never reaches the camera or the
\* transfer and leaves no file in the image directory; what its handler
\* writes is one record: the success record with slave_id and uptime for
\* status, the error record for the other action.
C35_OnlyCaptureTouchesCamera ==
    \A c \in Conns :
      request[c] \in { CmdStatus, CmdUnknown } =>
        /\ camera[c] = "unused"
        /\ hpc[c] \in { "none", "done" }
        /\ capture_result[c] = None
        /\ ~SendSide(c)
        /\ c \notin image_dir
        /\ Len(written[c]) <= 1
        /\ \A k \in DOMAIN written[c] :
             written[c][k] = Record(IF request[c] = CmdStatus THEN TxtStatus
                                    ELSE TxtErrorNoDetail)
        /\ JsonDumps(StatusRecord) = TxtStatus
        /\ { "slave_id", "uptime" } \subseteq DOMAIN StatusRecord
        /\ StatusRecord.status = "success"

\* a status command and a command with an unknown action have both been
\* answered, and their handlers have ended
C35_Witness ==
    \E c, d \in Conns :
      /\ request[c] = CmdStatus /\ written[c] = << Record(TxtStatus) >>
      /\ request[d] = CmdUnknown /\ written[d] = << Record(TxtErrorNoDetail) >>
      /\ hpc[c] = "done" /\ hpc[d] = "done"

\* the peer of c asked for the image and waits in its recv for the response,
\* and the first write it has not read is the success record
AwaitsSuccess(c) ==
    /\ peer[c] = "response"
    /\ request[c] = CmdCapture
    /\ Len(Unread(c)) >= 1
    /\ Unread(c)[1].text = TxtSuccess

\* C37: whenever a coordinator that asked for the image waits for the
\* response and the success record is the first unread write, every way
\* its recv(1024) can cut the unread writes (the record alone, or the
\* record with the length line behind it) is parsed as the success record
\* and leads into the receive side.
C37_FramingIndependentOfSegmentation ==
    \A c \in Conns :
      AwaitsSuccess(c) =>
        \A n \in 1..Min(2, Len(Unread(c))) :
          EntersReceive(ResponseData(Unread(c), n), ReceiveImage(request[c]))

\* the peer of c has connected and closed without writing (ping_slaves)
Pinged(c) == request[c] = Unbound /\ peer[c] = "closed"

\* C38: the handler of a connection that was opened and closed without a
\* command ends at its first read: it has parsed no command, called no
\* capture, written nothing, and its socket is closed.
C38_PingTriggersNothing ==
    \A c \in Conns :
      (Pinged(c) /\ hpc[c] # "none") =>
        /\ hpc[c] = "done"
        /\ client_socket[c] = "closed"
        /\ client_command[c] = None
        /\ camera[c] = "unused"
        /\ capture_result[c] = None
        /\ written[c] = << >>
        /\ sent[c] = None
        /\ c \notin image_dir

\* a pinged connection has been handled while another one captured
C38_Witness ==
    \E c, d \in Conns :
      /\ Pinged(c) /\ hpc[c] = "done" /\ client_socket[c] = "closed"
      /\ camera[d] = "saved"

\* the camera call of c ended without an image file
CaptureFailed(c) == camera[c] \in { "raised", "returned None" }

\* C19: a handler whose capture failed answers with an error record and
\* stays out of send_image_to_client, and a success record for a capture
\* is only written when the image file exists.
C19_FailedCaptureAnswersError ==
    \A c \in Conns :
      /\ (CaptureFailed(c) /\ Wrote(c, "record")) =>
           /\ written[c][1] = Record(TxtError)
           /\ ~SendSide(c)
      /\ (Wrote(c, "record") /\ written[c][1] = Record(TxtSuccess)) =>
           capture_result[c].filepath \in image_dir

(***************************************************************************)
(* Properties of the coordinator's cycle                                   *)
(***************************************************************************)
\* send_capture_to_all_slaves is about to return: pubs holds every text the
\* cycle handed to update_ble_result
CycleEnded == cpc = "return"

\* the texts that end a cycle
IsFinalStatus(t) ==
    IsComplete(t) \/ t \in { MsgNoImagesReceived, MsgNoImagesToProcess, MsgNoValidResults }

C14_ProcessingFirst ==
    /\ \A s \in SLAVE_HOSTS :
         (tpc[s] # "unstarted" \/ sock[s] # "none") =>
           Len(pubs) >= 1 /\ pubs[1] = MsgStarted
    /\ \A i \in 1..Len(pubs) :
         IsFinalStatus(pubs[i]) => i > 1 /\ pubs[1] = MsgStarted

\* a connection is open and the only text published so far is the first one
C14_Witness ==
    \E s \in SLAVE_HOSTS :
      /\ sock[s] = "connected"
      /\ pubs = << MsgStarted >>
      /\ result = MsgStarted

\* C16: a clear has run in the cycle before any image of the cycle is in
\* the folder, and a cycle with a success ends with the folder empty after a
\* second clear.
C16_ClearedAtStartAndEnd ==
    /\ (cpc # "idle" /\ \E f \in dir : f.size > 0) => clears >= 1
    /\ (CycleEnded /\ SuccessfulTransfers(results) # { }) => dir = { } /\ clears = 2

\* the calls of process() that raised
RaisedCalls == { i \in DOMAIN process_calls : ~process_calls[i].ok }

NothingCaptured == Succeeded = {}
CapturedNotClassified == Succeeded # {} /\ EntryFiles = << >>
SomeClassified == EntryFiles # << >>

FinalPublished ==
    /\ cpc \in { "clear", "return" }
    /\ pubs # << >>
    /\ IsFinalStatus(pubs[Len(pubs)])
    /\ result = pubs[Len(pubs)]

\* the socket call of the task of s got no answer within TIMEOUT
TimedOut(s) == cause[s] = "timeout"

\* what a timeout of the task of s leaves behind: its own socket closed and
\* a failure as its result; no other task is touched
Abandoned(s) ==
    /\ sock[s] = "closed"
    /\ tpc[s] \in { "store", "done" }
    /\ tpc[s] = "store" => IsFailure(ret[s])
    /\ tpc[s] = "done" => s \in DOMAIN results /\ IsFailure(results[s])

\* C36: every triggered cycle publishes a final status in the end, and a
\* task whose node never answers always ends with its socket closed and a
\* failure as its result.
C36_CycleEndsWithFinalStatus ==
    /\ (cpc = "begin") ~> FinalPublished
    /\ [](\A s \in SLAVE_HOSTS : TimedOut(s) => Abandoned(s))

\* a cycle in which one node never answered and another delivered its image
\* has published its final status
C36_Witness ==
    /\ FinalPublished
    /\ \E s, t \in SLAVE_HOSTS :
         /\ TimedOut(s) /\ tpc[s] = "done" /\ IsFailure(results[s])
         /\ tpc[t] = "done" /\ t \in Succeeded

(***************************************************************************)
(* Overlapping cycles.  write_callback starts a capture thread on every    *)
(* "capture" command, whether or not an earlier thread is still running;   *)
(* all threads use the one folder MASTER_IMAGE_DIR.  A task is reduced to  *)
(* its outcome: it stores its image or it fails.                           *)
(***************************************************************************)
\* f"master_received_slave{slave_id}_{timestamp}.jpg" as stored by a task of
\* cycle k (cycles are started at least 2 s apart, see write_callback)
StoredFile(k, slave_id) == [cycle |-> k, slave |-> slave_id]

\* write_callback("capture"): threading.Thread(...).start(), then
\* send_capture_to_all_slaves starts one task per slave
Trigger(k) ==
    /\ opc[k] = "idle"
    /\ \A j \in Cycles : j < k => opc[j] # "idle"
    /\ opc' = [opc EXCEPT ![k] = "fanout"]
    /\ pending' = [pending EXCEPT ![k] = SLAVE_HOSTS]
    /\ UNCHANGED << successes, todo, scratch, classified, lost >>

\* a task returns: receive_image_from_slave has written its file, or the
\* task has failed
TaskReturns(k, s) ==
    /\ opc[k] = "fanout"
    /\ s \in pending[k]
    /\ pending' = [pending EXCEPT ![k] = @ \ { s }]
    /\ \E success \in BOOLEAN :
         IF success
         THEN /\ scratch' = scratch \cup { StoredFile(k, s) }
              /\ successes' = [successes EXCEPT ![k] = @ \cup { s }]
         ELSE UNCHANGED << scratch, successes >>
    /\ UNCHANGED << opc, todo, classified, lost >>

\* every thread is joined; if successful_transfers: process_image_data lists
\* the folder: image_files = [f for f in os.listdir(folder_path) ...]
JoinAndList(k) ==
    /\ opc[k] = "fanout"
    /\ pending[k] = { }
    /\ IF successes[k] # { }
       THEN /\ todo' = [todo EXCEPT ![k] = scratch]
            /\ opc' = [opc EXCEPT ![k] = "classify"]
       ELSE /\ opc' = [opc EXCEPT ![k] = "done"]
            /\ UNCHANGED todo
    /\ UNCHANGED << pending, successes, scratch, classified, lost >>

\* for filename in image_files: process(file_path); a file that is gone
\* makes process raise, and the loop goes on
ClassifyNext(k) ==
    /\ opc[k] = "classify"
    /\ \E f \in todo[k] :
         /\ todo' = [todo EXCEPT ![k] = @ \ { f }]
         /\ classified' = [classified EXCEPT ![k] =
                IF f \in scratch THEN @ \cup { f } ELSE @]
    /\ UNCHANGED << opc, pending, successes, scratch, lost >>

\* the report is published; finally: clear_image_folder(folder_path)
PublishAndClear(k) ==
    /\ opc[k] = "classify"
    /\ todo[k] = { }
    /\ scratch' = clear_image_folder(scratch)
    /\ lost' = lost \cup { f \in scratch : f.cycle # k /\ f \notin classified[f.cycle] }
    /\ opc' = [opc EXCEPT ![k] = "done"]
    /\ UNCHANGED << pending, successes, todo, classified >>

NextOverlap ==
    \/ (\E k \in Cycles : Trigger(k)) /\ UNCHANGED << vars, responder, classifier, spi >>
    \/ (\E k \in Cycles, s \in SLAVE_HOSTS : TaskReturns(k, s)) /\ UNCHANGED << vars, responder, classifier, spi >>
    \/ (\E k \in Cycles : JoinAndList(k)) /\ UNCHANGED << vars, responder, classifier, spi >>
    \/ (\E k \in Cycles : ClassifyNext(k)) /\ UNCHANGED << vars, responder, classifier, spi >>
    \/ (\E k \in Cycles : PublishAndClear(k)) /\ UNCHANGED << vars, responder, classifier, spi >>

SpecOverlap == Init /\ [][NextOverlap]_all_vars

\* C15: no cycle hands to process() a file another cycle stored, and no
\* clear removes a file another cycle has stored and not yet classified.
C15_ScratchOwnedByOneCycle ==
    /\ \A k \in Cycles : \A f \in classified[k] : f.cycle = k
    /\ lost = { }

(***************************************************************************)
(* Brightness levels: _blevels and detect_level                            *)
(***************************************************************************)
\* BLevel(brange=range(start, stop), bval=...), in the order of the list
BLevel(start, stop, bval) == [brange |-> [start |-> start, stop |-> stop], bval |-> bval]

blevels ==
    << BLevel(0, 24, 0), BLevel(23, 47, 1), BLevel(46, 70, 2), BLevel(69, 93, 3),
       BLevel(92, 116, 4), BLevel(115, 140, 5), BLevel(139, 163, 6),
       BLevel(162, 186, 7), BLevel(185, 209, 8), BLevel(208, 232, 9),
       BLevel(231, 256, 10) >>

\* h_val in range(start, stop)
InRange(v, brange) == brange.start <= v /\ v < brange.stop

Raised(error) == [raised |-> error]
ValueError == "Brightness Level Out of Range"

\* faulty variant: a value outside every range is clamped to the nearest level
detect_level_clamped(v) ==
    IF v < 0 THEN Returned(0)
    ELSE IF v > 255 THEN Returned(10)
    ELSE Returned((CHOOSE i \in DOMAIN blevels :
                     /\ InRange(v, blevels[i].brange)
                     /\ \A j \in 1..(i - 1) : ~InRange(v, blevels[j].brange)) - 1)

\* faulty variant: the last range that holds the value gives the level
detect_level_last(v) ==
    IF \A i \in DOMAIN blevels : ~InRange(v, blevels[i].brange)
    THEN Raised(ValueError)
    ELSE Returned(blevels[CHOOSE i \in DOMAIN blevels :
                     /\ InRange(v, blevels[i].brange)
                     /\ \A j \in (i + 1)..Len(blevels) : ~InRange(v, blevels[j].brange)].bval)

\* for blevel in _blevels: if h_val in blevel.brange: return blevel.bval
RECURSIVE FirstMatch(_, _)
FirstMatch(v, i) ==
    IF i > Len(blevels) THEN Raised(ValueError)
    ELSE IF InRange(v, blevels[i].brange) THEN Returned(blevels[i].bval)
    ELSE FirstMatch(v, i + 1)

\* detect_level(h_val): h_val = int(h_val) leaves an integer as it is; the
\* first range of the list that holds it gives the level, none raises
detect_level(v) == FirstMatch(v, 1)

BrightnessInputs == (0 - Margin)..(255 + Margin)

\* one call of detect_level on an integer
DetectLevel ==
    \E v \in BrightnessInputs :
      /\ h_val' = v
      /\ level' = detect_level(v)
      /\ UNCHANGED << ppc, locals, process_ret, frame, calls, first_ret, scans >>

NextLevels == DetectLevel /\ UNCHANGED << vars, responder, overlap, spi >>

SpecLevels == Init /\ [][NextLevels]_all_vars

\* detect_level has been called
Called == level # None

\* C21: detect_level returns a level in 0..10 for every integer in 0..255
\* and raises ValueError for every other integer.
C21_TotalAndNotClamped ==
    Called =>
      IF h_val \in 0..255
      THEN \E b \in 0..10 : level = Returned(b)
      ELSE level = Raised(ValueError)

\* the integers next to both ends of 0..255 have been refused
C21_Witness == Called /\ h_val \in { 0 - 1, 256 } /\ level = Raised(ValueError)

\* the value two adjacent ranges share: the start of the higher range
SharedValue(i) == blevels[i + 1].brange.start

\* C22 as stated: the value shared by two adjacent ranges belongs to the
\* higher level (23 maps to level 1) and the value below it to the lower
\* level (22 maps to level 0), at every boundary.
C22_SharedValueIsHigherLevel ==
    Called =>
      \A i \in 1..(Len(blevels) - 1) :
        /\ h_val = SharedValue(i) => level = Returned(blevels[i + 1].bval)
        /\ h_val = SharedValue(i) - 1 => level = Returned(blevels[i].bval)

\* C22: at every boundary the value shared by two adjacent ranges belongs
\* to the lower level, as does the value below it, and the value above it
\* is the first of the higher level (22 and 23 map to level 0, 24 to 1).
C22_SharedValueIsLowerLevel ==
    Called =>
      \A i \in 1..(Len(blevels) - 1) :
        /\ SharedValue(i) = blevels[i].brange.stop - 1
        /\ h_val = SharedValue(i) - 1 => level = Returned(blevels[i].bval)
        /\ h_val = SharedValue(i) => level = Returned(blevels[i].bval)
        /\ h_val = SharedValue(i) + 1 => level = Returned(blevels[i + 1].bval)

\* detect_level was called with 23 and returned level 0
C22_Witness == Called /\ h_val = 23 /\ level = Returned(0)

(***************************************************************************)
(* The classifier: process(img_path)                                       *)
(***************************************************************************)
\* prt_11[:140] and prt_11[140:280]: the rows of a sub-band
BandRows == 140
\* np.sum(band[i:i + 10]): the rows of one window
WindowRows == 10
\* i += 2
StepRows == 2
\* s_t > 1000, s_c > -1000
Threshold == 1000

\* the value of i in the k-th pass of a scan loop (k = 1, 2, ...)
WindowStart(k) == WindowRows + StepRows * (k - 1)

\* the passes a scan loop makes when nothing fires: while i + 10 < len(band)
Steps == { k \in 1..BandRows : WindowStart(k) + WindowRows < BandRows }

\* growth of the row sums of a "ramp" band: each window exceeds the one
\* before it by exactly Threshold
RampSlope == Threshold \div (WindowRows * StepRows)

\* the sum of the pixels of row j (from 0) of a sub-band
Row(band, j) ==
    CASE band.kind = "drop" ->
           IF j < WindowStart(band.step) + WindowRows - 1 THEN band.d ELSE 0
      [] band.kind = "ramp" ->
           RampSlope * Min(j, IF band.step = 0 THEN BandRows
                              ELSE WindowStart(band.step) + WindowRows - 1 - StepRows)
      [] band.kind = "decline" ->
           RampSlope * (BandRows - (IF j < 2 * WindowRows THEN 2 * WindowRows ELSE j))
      [] OTHER -> 0

\* np.sum(band[from:to])
RECURSIVE SumRows(_, _, _)
SumRows(band, from, to) ==
    IF from >= to THEN 0 ELSE Row(band, from) + SumRows(band, from + 1, to)

\* the frames that are modelled
BrightnessSamples == { 23, 69, 70, 255 }
UpperBands ==
    { Flat, Band("decline", 0, 0) }
      \cup { Band("drop", k, d) : k \in 1..MaxStep, d \in { Threshold, Threshold + 1 } }
LowerBands == { Flat, Band("ramp", 0, 0) } \cup { Band("ramp", k, 0) : k \in 2..MaxStep }
Crops == [upper : UpperBands, lower : LowerBands]

\* a call reads a part of the image: what an earlier call on the same image
\* has read is read again, anything else is any of the modelled values
Look(read, unread, values) == IF read = unread THEN values ELSE { read }

\* faulty variant: the list l of the call before is kept (hidden state)
EnterProcessKeepingList ==
    /\ locals' = [NoLocals EXCEPT !.c = 1, !.n = 0, !.l = locals.l]
    /\ process_ret' = None
    /\ scans' = << >>
    /\ ppc' = "while"

\* c = 1; l = []; b_val = []; n = 0
EnterProcess ==
    /\ locals' = [NoLocals EXCEPT !.c = 1, !.n = 0]
    /\ process_ret' = None
    /\ scans' = << >>
    /\ ppc' = "while"

\* process(img_path) is called on an image no call has read yet
Call ==
    /\ ppc \in { "idle", "returned", "raised" }
    /\ EnterProcess
    /\ frame' = UnreadFrame
    /\ calls' = 1
    /\ first_ret' = None
    /\ UNCHANGED << h_val, level >>

\* process(img_path) is called once more on the same image
CallAgain ==
    /\ ppc \in { "returned", "raised" }
    /\ calls = 1
    /\ EnterProcess
    /\ calls' = 2
    /\ UNCHANGED << h_val, level, frame, first_ret >>

\* the call ends: with the list l, or with the exception that left it
EndProcess(how) ==
    /\ process_ret' = how
    /\ first_ret' = IF calls = 1 THEN how ELSE first_ret
    /\ ppc' = IF "raised" \in DOMAIN how THEN "raised" ELSE "returned"

\* while c < 3: bb = cv2.imread(img_path); bb_1 = cv2.cvtColor(bb, ...) raises
\* when imread found no image; after the loop: return l
While ==
    /\ ppc = "while"
    /\ IF locals.c < 3
       THEN \E r \in Look(frame.readable, "unread", { "image", "no image" }) :
              /\ frame' = [frame EXCEPT !.readable = r]
              /\ IF r = "image"
                 THEN ppc' = "half" /\ UNCHANGED << process_ret, first_ret >>
                 ELSE EndProcess(Raised("cv2.error"))
       ELSE /\ EndProcess(Returned(locals.l))
            /\ UNCHANGED frame
    /\ UNCHANGED << h_val, level, locals, calls, scans >>

\* faulty variant: the code is written in front of its cell index
ExtendCodeFirst(l, c, cnt) == l \o << cnt, c >>

\* l.extend([c, cnt])
Extend(l, c, cnt) == l \o << c, cnt >>

\* the half whose check window gives b_value in pass c
HalfOf(c) == IF c = 1 THEN "left" ELSE "right"

\* the crop window the second pass takes: prt_2[:300, 100:230], or
\* prt_1[:300, 100:240] with n = 1 when b_val[0] > b_val[1] <= 2
SecondCrop(b_val) ==
    CASE b_val[1] < b_val[2] /\ b_val[2] <= 2 -> [prt_11 |-> "right", n |-> 0]
      [] b_val[1] > b_val[2] /\ b_val[2] <= 2 -> [prt_11 |-> "left", n |-> 1]
      [] OTHER -> [prt_11 |-> "right", n |-> 0]

\* if c == 1: ... elif c == 2: ...: the brightness level of the half is
\* taken and the pass either ends with code 0 or picks its crop window
Half ==
    /\ ppc = "half"
    /\ LET h == HalfOf(locals.c) IN
       \E v \in Look(frame[h].v, NotYet, BrightnessSamples) :
         LET b_value == detect_level(v)
             b_val == Append(locals.b_val, b_value.returned)
         IN
         /\ frame' = [frame EXCEPT ![h].v = v]
         /\ IF "raised" \in DOMAIN b_value
            THEN /\ EndProcess(b_value)
                 /\ UNCHANGED locals
            ELSE /\ UNCHANGED << process_ret, first_ret >>
                 /\ IF locals.c = 1
                    THEN IF b_value.returned < 3
                         THEN /\ locals' = [locals EXCEPT !.b_val = b_val, !.cnt = 0,
                                               !.l = Extend(@, 1, 0), !.c = 2]
                              /\ ppc' = "while"
                         ELSE /\ locals' = [locals EXCEPT !.b_val = b_val, !.prt_11 = "left"]
                              /\ ppc' = "crop"
                    ELSE IF b_val[1] = b_val[2] /\ b_val[2] <= 2
                         THEN /\ locals' = [locals EXCEPT !.b_val = b_val, !.cnt = 0,
                                               !.l = Extend(@, 2, 0), !.c = 3]
                              /\ ppc' = "while"
                         ELSE /\ locals' = [locals EXCEPT !.b_val = b_val,
                                               !.prt_11 = SecondCrop(b_val).prt_11,
                                               !.n = SecondCrop(b_val).n]
                              /\ ppc' = "crop"
    /\ UNCHANGED << h_val, level, calls, scans >>

\* one edge detection: the pass, the half its crop window is taken from,
\* and the scan step at which each sub-band fired (0: it did not)
Scan(c, half) == [c |-> c, half |-> half, upper |-> 0, lower |-> 0]

\* the scan step of the loop pass with this i
StepOf(i) == (i - WindowRows) \div StepRows + 1

\* the sub-band a scan loop reads
BandOf(sub) == frame[locals.prt_11].crop[sub]

\* prt_11_1 = prt_11[:140]; prt_11_2 = prt_11[140:280]; i = 10;
\* ini_sum = np.sum(prt_11_1[0:10]); count_t = 0
BeginScan ==
    /\ ppc = "crop"
    /\ \E crop \in Look(frame[locals.prt_11].crop, NoCrop, Crops) :
         /\ frame' = [frame EXCEPT ![locals.prt_11].crop = crop]
         /\ locals' = [locals EXCEPT !.i = WindowRows,
                                     !.ini_sum = SumRows(crop.upper, 0, WindowRows),
                                     !.count_t = 0]
    /\ scans' = Append(scans, Scan(locals.c, locals.prt_11))
    /\ ppc' = "upper"
    /\ UNCHANGED << h_val, level, process_ret, calls, first_ret >>

\* i = 10; ini_sum = np.sum(prt_11_2[0:10]); count_c = 0
BeginLower(count_t) ==
    /\ locals' = [locals EXCEPT !.count_t = count_t, !.i = WindowRows,
                                !.ini_sum = SumRows(BandOf("lower"), 0, WindowRows),
                                !.count_c = 0]
    /\ ppc' = "lower"

\* faulty variant: the upper sub-band fires as soon as the sum falls by Threshold
FiresUpperAtThreshold(s_t) == s_t >= Threshold

\* if s_t > 1000
FiresUpper(s_t) == s_t > Threshold

\* faulty variant: the baseline stays the sum of the first 10 rows
ScanUpperFixedBaseline ==
    /\ ppc = "upper"
    /\ IF locals.i + WindowRows < BandRows
       THEN LET m == SumRows(frame[locals.prt_11].crop.upper, locals.i, locals.i + WindowRows)
                s_t == locals.ini_sum - m
            IN IF FiresUpper(s_t)
               THEN /\ locals' = [locals EXCEPT !.count_t = @ + 1, !.i = WindowRows,
                            !.ini_sum = SumRows(frame[locals.prt_11].crop.lower, 0, WindowRows),
                            !.count_c = 0]
                    /\ ppc' = "lower"
                    /\ scans' = [scans EXCEPT ![Len(scans)].upper =
                                    (locals.i - WindowRows) \div StepRows + 1]
               ELSE /\ locals' = [locals EXCEPT !.i = @ + StepRows]
                    /\ UNCHANGED << ppc, scans >>
       ELSE /\ locals' = [locals EXCEPT !.i = WindowRows,
                     !.ini_sum = SumRows(frame[locals.prt_11].crop.lower, 0, WindowRows),
                     !.count_c = 0]
            /\ ppc' = "lower"
            /\ UNCHANGED scans
    /\ UNCHANGED << h_val, level, process_ret, frame, calls, first_ret >>

\* while i + 10 < len(prt_11_1): one pass of the loop over the upper sub-band
ScanUpper ==
    /\ ppc = "upper"
    /\ IF locals.i + WindowRows < BandRows
       THEN LET m == SumRows(BandOf("upper"), locals.i, locals.i + WindowRows)
                s_t == locals.ini_sum - m
            IN IF FiresUpper(s_t)
               THEN /\ BeginLower(locals.count_t + 1)
                    /\ scans' = [scans EXCEPT ![Len(scans)].upper = StepOf(locals.i)]
               ELSE /\ locals' = [locals EXCEPT !.ini_sum = m, !.i = @ + StepRows]
                    /\ UNCHANGED << ppc, scans >>
       ELSE /\ BeginLower(locals.count_t)
            /\ UNCHANGED scans
    /\ UNCHANGED << h_val, level, process_ret, frame, calls, first_ret >>

\* faulty variant: the lower sub-band fires on a delta of -1000 as well
FiresLowerAtThreshold(s_c) == s_c >= 0 - Threshold

\* if s_c > -1000
FiresLower(s_c) == s_c > 0 - Threshold

\* while i + 10 < len(prt_11_2): one pass of the loop over the lower sub-band
ScanLower ==
    /\ ppc = "lower"
    /\ IF locals.i + WindowRows < BandRows
       THEN LET m == SumRows(BandOf("lower"), locals.i, locals.i + WindowRows)
                s_c == locals.ini_sum - m
            IN IF FiresLower(s_c)
               THEN /\ locals' = [locals EXCEPT !.count_c = @ + 1]
                    /\ scans' = [scans EXCEPT ![Len(scans)].lower = StepOf(locals.i)]
                    /\ ppc' = "combine"
               ELSE /\ locals' = [locals EXCEPT !.ini_sum = m, !.i = @ + StepRows]
                    /\ UNCHANGED << ppc, scans >>
       ELSE /\ ppc' = "combine"
            /\ UNCHANGED << locals, scans >>
    /\ UNCHANGED << h_val, level, process_ret, frame, calls, first_ret >>

\* faulty variant: a detection in either sub-band counts as occupied
OccupancyCodeEither(count_t, count_c) ==
    IF count_c = 1 /\ count_t = 1 THEN 2
    ELSE IF count_c = 1 \/ count_t = 1 THEN 1 ELSE 0

\* if count_c == 1 and count_t == 0: cnt = 1 elif ... : cnt = 2 ... else: cnt = 0
OccupancyCode(count_t, count_c) ==
    IF count_c = 1 /\ count_t = 0 THEN 1
    ELSE IF count_c = 1 /\ count_t = 1 THEN 2
    ELSE IF count_t = 1 /\ count_c = 0 THEN 0
    ELSE 0

\* l.extend([c, cnt]); c += 1; if n == 1: l = [1, cnt, 2, 0]
Combine ==
    /\ ppc = "combine"
    /\ LET cnt == OccupancyCode(locals.count_t, locals.count_c) IN
         locals' = [locals EXCEPT !.cnt = cnt, !.c = @ + 1,
                      !.l = IF locals.n = 1 THEN << 1, cnt, 2, 0 >>
                            ELSE Extend(@, locals.c, cnt)]
    /\ ppc' = "while"
    /\ UNCHANGED << h_val, level, process_ret, frame, calls, first_ret, scans >>

NextClassifier ==
    \/ Call /\ UNCHANGED << vars, responder, overlap, spi >>
    \/ CallAgain /\ UNCHANGED << vars, responder, overlap, spi >>
    \/ While /\ UNCHANGED << vars, responder, overlap, spi >>
    \/ Half /\ UNCHANGED << vars, responder, overlap, spi >>
    \/ BeginScan /\ UNCHANGED << vars, responder, overlap, spi >>
    \/ ScanUpper /\ UNCHANGED << vars, responder, overlap, spi >>
    \/ ScanLower /\ UNCHANGED << vars, responder, overlap, spi >>
    \/ Combine /\ UNCHANGED << vars, responder, overlap, spi >>

SpecClassifier == Init /\ [][NextClassifier]_all_vars

(***************************************************************************)
(* Properties of the classifier                                            *)
(***************************************************************************)
\* process has returned its list
ProcessReturned == ppc = "returned"

\* the occupancy code the returned list gives for cell c
CodeOf(c) == process_ret.returned[2 * c]

\* the halves edge detection was run on in this call
ScannedHalves == { scans[k].half : k \in DOMAIN scans }

\* C23: when process returns, a half whose brightness level is below 3 has
\* code 0 and no edge detection was run on its crop window.
C23_BrightnessGate ==
    ProcessReturned =>
      \A c \in { 1, 2 } :
        locals.b_val[c] < 3 => CodeOf(c) = 0 /\ HalfOf(c) \notin ScannedHalves

\* C24: when both brightness levels are at most 2, equal or not, process
\* returns code 0 for both cells and has run no edge detection.
C24_BothDarkBothEmpty ==
    (ProcessReturned /\ locals.b_val[1] <= 2 /\ locals.b_val[2] <= 2) =>
      process_ret = Returned(<< 1, 0, 2, 0 >>) /\ scans = << >>

\* C25: when the left level is greater than the right level and the right
\* level is at most 2, the code computed from the left crop window is the
\* code of both cells.
C25_MirrorSameCodes ==
    (ProcessReturned /\ locals.b_val[1] > locals.b_val[2] /\ locals.b_val[2] <= 2) =>
      /\ scans[Len(scans)].half = "left"
      /\ CodeOf(1) = locals.cnt
      /\ CodeOf(2) = CodeOf(1)

\* a pass has just combined the flags of its two scans into cnt
JustCombined ==
    ppc = "while" /\ scans # << >> /\ locals.c = scans[Len(scans)].c + 1

\* C26: the code a pass computes is 1 when only the lower sub-band fired,
\* 2 when both fired, and 0 when the lower one did not fire, whether the
\* upper one fired or not.
C26_OccupancyCodeTable ==
    JustCombined =>
      LET lowerFired == scans[Len(scans)].lower > 0
          upperFired == scans[Len(scans)].upper > 0
      IN /\ (lowerFired /\ ~upperFired) => locals.cnt = 1
         /\ (lowerFired /\ upperFired) => locals.cnt = 2
         /\ ~lowerFired => locals.cnt = 0
         /\ locals.count_c = (IF lowerFired THEN 1 ELSE 0)
         /\ locals.count_t = (IF upperFired THEN 1 ELSE 0)

\* the upper sub-band fired and the lower one did not: code 0; in the other
\* pass of the same call both fired: code 2
C26_Witness ==
    /\ JustCombined
    /\ Len(scans) = 2
    /\ scans[1].upper > 0 /\ scans[1].lower = 0 /\ locals.l[2] = 0
    /\ scans[2].upper > 0 /\ scans[2].lower > 0 /\ locals.cnt = 2

\* both scans of an edge detection have ended
ScansEnded == ppc = "combine"

\* the edge detection that has just ended, and the sub-bands it read
LastScan == scans[Len(scans)]
ScannedBand(sub) == frame[LastScan.half].crop[sub]

\* the sum of the window of scan step k, and of the window before it (the
\* first 10 rows for k = 1): the baseline of step k
WindowSum(band, k) == SumRows(band, WindowStart(k), WindowStart(k) + WindowRows)
Baseline(band, k) == IF k = 1 THEN SumRows(band, 0, WindowRows) ELSE WindowSum(band, k - 1)
Delta(band, k) == Baseline(band, k) - WindowSum(band, k)

\* the first scan step whose delta exceeds the bound (0: there is none)
FirstStepAbove(band, bound) ==
    IF \E k \in Steps : Delta(band, k) > bound
    THEN CHOOSE k \in Steps :
           /\ Delta(band, k) > bound
           /\ \A j \in Steps : j < k => Delta(band, j) <= bound
    ELSE 0

\* every window sum of the band is within 1000 of its baseline
StaysWithin(band) ==
    \A k \in Steps : Delta(band, k) <= 1000 /\ Delta(band, k) >= 0 - 1000

\* C27 as stated: in either sub-band a scan whose window sums all stay
\* within 1000 of the baseline does not fire, and a scan whose sums stay
\* within 1000 up to a fall of 1001 at step k fires at step k.
C27_EitherBandFiresOnJump ==
    ScansEnded =>
      \A sub \in { "upper", "lower" } :
        /\ StaysWithin(ScannedBand(sub)) => LastScan[sub] = 0
        /\ \A k \in Steps :
             ( /\ Delta(ScannedBand(sub), k) = 1001
               /\ \A j \in Steps : j < k =>
                     /\ Delta(ScannedBand(sub), j) <= 1000
                     /\ Delta(ScannedBand(sub), j) >= 0 - 1000 )
             => LastScan[sub] = k

\* C27: the upper sub-band fires at the first step whose window sum is more
\* than 1000 below its baseline (the window before it) and at no other
\* step, so it never fires when every sum stays within 1000 and it fires
\* exactly at step k when the first such fall, of 1001, comes at step k.
\* The lower sub-band fires at the first step whose delta is above -1000,
\* that is unless the sum has grown by 1000 or more: it fires at step 1 on
\* a band whose sums stay within 1000 of the baseline.
C27_ScanFiresAtFirstCrossing ==
    ScansEnded =>
      /\ LastScan.upper = FirstStepAbove(ScannedBand("upper"), 1000)
      /\ LastScan.lower = FirstStepAbove(ScannedBand("lower"), 0 - 1000)
      /\ StaysWithin(ScannedBand("upper")) => LastScan.upper = 0
      /\ \A k \in 1..MaxStep :
           ScannedBand("upper") = Band("drop", k, 1001) => LastScan.upper = k
      /\ (StaysWithin(ScannedBand("lower")) /\ Delta(ScannedBand("lower"), 1) > 0 - 1000)
           => LastScan.lower = 1

\* the upper sums fell by 1001 at the latest modelled step and the scan
\* fired there; the lower sums grew by 1000 a step and then by less, and
\* the scan fired at that step
C27_Witness ==
    /\ ScansEnded
    /\ ScannedBand("upper") = Band("drop", MaxStep, 1001)
    /\ LastScan.upper = MaxStep
    /\ ScannedBand("lower") = Band("ramp", MaxStep, 0)
    /\ LastScan.lower = MaxStep

\* C31: the lower sub-band fires at the first step whose delta (baseline -
\* current window sum) is greater than -1000 and at no earlier step: every
\* step before it saw the sum grow by 1000 or more, and a band whose second
\* window is less than 1000 above the first fires at step 1.
C31_LowerFiresAboveMinusThreshold ==
    ScansEnded =>
      LET band == ScannedBand("lower") IN
      /\ LastScan.lower > 0 =>
           /\ Delta(band, LastScan.lower) > 0 - 1000
           /\ \A j \in 1..(LastScan.lower - 1) : WindowSum(band, j) - Baseline(band, j) >= 1000
      /\ LastScan.lower = 0 =>
           \A j \in Steps : WindowSum(band, j) - Baseline(band, j) >= 1000
      /\ WindowSum(band, 1) - Baseline(band, 1) < 1000 => LastScan.lower = 1
      /\ locals.count_c = (IF LastScan.lower > 0 THEN 1 ELSE 0)

\* a lower sub-band of equal rows fired at the first step, under an upper
\* sub-band that fired too
C31_Witness ==
    /\ ScansEnded
    /\ ScannedBand("lower") = Flat
    /\ LastScan.lower = 1
    /\ LastScan.upper > 0

\* the upper scan is in its loop
InUpperScan == ppc = "upper"

\* C32: in the upper scan the baseline of every pass is the sum of the
\* window examined in the pass before (the first 10 rows in the first
\* pass); the scan fires at the first step whose delta is strictly above
\* 1000, not on a delta of exactly 1000, and a decline of more than 1000
\* in steps of at most 1000 never fires.
C32_UpperRunningBaseline ==
    /\ (InUpperScan /\ locals.i + WindowRows < BandRows) =>
         locals.ini_sum = Baseline(BandOf("upper"), StepOf(locals.i))
    /\ ScansEnded =>
         LET band == ScannedBand("upper") IN
         /\ LastScan.upper > 0 =>
              /\ Delta(band, LastScan.upper) > 1000
              /\ \A j \in 1..(LastScan.upper - 1) : Delta(band, j) <= 1000
         /\ \A k \in 1..MaxStep :
              band = Band("drop", k, 1000) =>
                Delta(band, k) = 1000 /\ LastScan.upper = k + 1
         /\ (\A j \in Steps : Delta(band, j) <= 1000) => LastScan.upper = 0

\* the sums of the upper sub-band fell by more than 1000 from the first
\* window to the last, never by more than 1000 in a step, and the scan did
\* not fire
C32_Witness ==
    /\ ScansEnded
    /\ ScannedBand("upper") = Band("decline", 0, 0)
    /\ SumRows(ScannedBand("upper"), 0, WindowRows)
          - SumRows(ScannedBand("upper"), BandRows - WindowRows, BandRows) > 1000
    /\ \E j \in Steps : Delta(ScannedBand("upper"), j) = 1000
    /\ LastScan.upper = 0

\* the second call on an image has ended
SecondCallEnded == calls = 2 /\ ppc \in { "returned", "raised" }

\* C28: a second call of process on the same image ends as the first one
\* did: with the same list of cells and codes, or with the same error.
C28_Deterministic == SecondCallEnded => process_ret = first_ret

\* both calls ran two edge detections and returned the same two codes
C28_Witness ==
    /\ SecondCallEnded
    /\ Len(scans) = 2
    /\ first_ret = Returned(<< 1, 1, 2, 2 >>)
    /\ process_ret = first_ret

\* C29: whenever process returns, its list is cell 1 with its code followed
\* by cell 2 with its code, and both codes are 0, 1 or 2.
C29_CellsInOrder ==
    ProcessReturned =>
      \E a, b \in { 0, 1, 2 } : process_ret = Returned(<< 1, a, 2, b >>)

\* the call returned through the branch with n = 1, after the first pass
\* had ended at the brightness gate
C29_Witness ==
    /\ ProcessReturned
    /\ locals.n = 1
    /\ locals.b_val[1] < 3
    /\ process_ret = Returned(<< 1, 2, 2, 0 >>)

(***************************************************************************)
(* SPI variant (Spi_test01): SlaveController.handle_command with its       *)
(* capture_worker threads, and MasterController.run_capture_sequence.      *)
(* Two of the configured slaves are modelled, both READY; a command the    *)
(* master sends is delivered and answered by handle_command.  A packet is  *)
(* known by the capture it belongs to and its index.                       *)
(***************************************************************************)
\* the commands of the master, and the answers of a slave
Cmd(name, arg) == [name |-> name, arg |-> arg]
Reply(text) == [text |-> text]

\* "ERROR" in response
HasError(response) ==
    response.text \in { "CAPTURE_ERROR", "ERROR:NO_CAPTURE_DATA",
                        "ERROR:INVALID_PACKET_INDEX", "ERROR:UNKNOWN_COMMAND" }

\* encode_image_to_packets(image_bytes, self.slave_id), for the image of
\* the capture of worker w
encode_image_to_packets(w) ==
    [i \in 1..NumPackets |-> [capture |-> w, index |-> i - 1]]

\* the string handle_command(command) of slave s returns
handle_command(s, command) ==
    CASE command.name = "PING" -> Reply("PONG")
      [] command.name = "CAPTURE" ->
           IF capture_status[s] \in { "IDLE", "COMPLETE", "ERROR" }
           THEN Reply("CAPTURE_STARTED")
           ELSE Reply("CAPTURE_BUSY")
      [] command.name = "STATUS" ->
           IF capture_status[s] = "COMPLETE" THEN Reply("CAPTURE_COMPLETE")
           ELSE IF capture_status[s] = "CAPTURING" THEN Reply("CAPTURE_IN_PROGRESS")
           ELSE IF capture_status[s] = "ERROR" THEN Reply("CAPTURE_ERROR")
           ELSE Reply("IDLE")
      [] command.name = "GET_PACKET_COUNT" ->
           IF capture_status[s] = "COMPLETE"
           THEN [text |-> "PACKET_COUNT", count |-> Len(current_packets[s])]
           ELSE Reply("ERROR:NO_CAPTURE_DATA")
      [] command.name = "GET_PACKET" ->
           IF capture_status[s] = "COMPLETE"
              /\ 0 <= command.arg /\ command.arg < Len(current_packets[s])
           THEN [text |-> "PACKET", packet |-> current_packets[s][command.arg + 1]]
           ELSE Reply("ERROR:INVALID_PACKET_INDEX")
      [] OTHER -> Reply("ERROR:UNKNOWN_COMMAND")

\* the next thread capture_image_async of slave s creates
NextWorker(s) ==
    CHOOSE w \in Workers :
      wpc[s][w] = "unstarted" /\ \A v \in Workers : v < w => wpc[s][v] # "unstarted"

\* d[k] = v on a dict
Put(d, k, v) == [j \in DOMAIN d \cup { k } |-> IF j = k THEN v ELSE d[j]]

\* sum(d.values()) of a dict of booleans
CountTrue(d) == Cardinality({ k \in DOMAIN d : d[k] })

\* main: command == 'start': master.run_capture_sequence()
StartSequence ==
    /\ mpc = "idle"
    /\ runs < MaxRuns
    /\ runs' = runs + 1
    /\ mpc' = "broadcast"
    /\ mpos' = 1
    /\ capture_results' = << >>
    /\ started' = [s \in SPI_SLAVES |-> 0]
    /\ UNCHANGED << capture_status, current_packets, wpc, completion_status,
                    packet_count, packet_index, all_packets >>

\* broadcast_capture_command: for slave in self.slave_configs:
\* send_command(slave_id, f"CAPTURE:{timestamp}"), answered by handle_command,
\* whose capture_image_async starts the worker thread; after the loop
\* run_capture_sequence returns False when no slave started
Broadcast ==
    /\ mpc = "broadcast"
    /\ IF mpos \in SPI_SLAVES
       THEN LET response == handle_command(mpos, Cmd("CAPTURE", runs))
                success == response.text = "CAPTURE_STARTED"
            IN  /\ capture_results' = Put(capture_results, mpos, success)
                /\ IF success
                   THEN /\ wpc' = [wpc EXCEPT ![mpos][NextWorker(mpos)] = "started"]
                        /\ started' = [started EXCEPT ![mpos] = NextWorker(mpos)]
                   ELSE UNCHANGED << wpc, started >>
                /\ mpos' = mpos + 1
                /\ UNCHANGED mpc
       ELSE /\ mpc' = IF CountTrue(capture_results) = 0 THEN "idle" ELSE "wait"
            /\ mpos' = 1
            /\ UNCHANGED << capture_results, wpc, started >>
    /\ completion_status' = << >>
    /\ UNCHANGED << capture_status, current_packets, packet_count, packet_index,
                    all_packets, runs >>

\* wait_for_capture_completion: one pass of the while loop of a slave (a
\* STATUS command, or the timeout of the loop), and after the for loop the
\* test of completed_captures in run_capture_sequence
Poll ==
    /\ mpc = "wait"
    /\ IF mpos \in SPI_SLAVES
       THEN \/ \* (time.time() - slave_start_time) < timeout is false
               /\ completion_status' = Put(completion_status, mpos, FALSE)
               /\ mpos' = mpos + 1
               /\ UNCHANGED mpc
            \/ LET response == handle_command(mpos, Cmd("STATUS", 0))
               IN  IF response.text = "CAPTURE_COMPLETE"
                   THEN /\ completion_status' = Put(completion_status, mpos, TRUE)
                        /\ mpos' = mpos + 1
                        /\ UNCHANGED mpc
                   ELSE IF HasError(response)
                   THEN /\ completion_status' = Put(completion_status, mpos, FALSE)
                        /\ mpos' = mpos + 1
                        /\ UNCHANGED mpc
                   ELSE \* time.sleep(1)
                        UNCHANGED << completion_status, mpos, mpc >>
       ELSE /\ mpc' = IF CountTrue(completion_status) = 0 THEN "idle" ELSE "receive"
            /\ mpos' = 1
            /\ all_packets' = << >>
            /\ UNCHANGED completion_status
    /\ mpos \in SPI_SLAVES => UNCHANGED all_packets
    /\ UNCHANGED << capture_status, current_packets, wpc, capture_results,
                    packet_count, packet_index, runs, started >>

\* run_capture_sequence step 3: for slave_id, completed in
\* completion_status.items(): if completed: receive_image_packets(slave_id),
\* up to its GET_PACKET_COUNT; int() of an error answer raises and the
\* packets stay []
GetPacketCount ==
    /\ mpc = "receive"
    /\ IF mpos \in SPI_SLAVES
       THEN IF completion_status[mpos]
            THEN LET response == handle_command(mpos, Cmd("GET_PACKET_COUNT", 0))
                 IN  /\ all_packets' = Put(all_packets, mpos, << >>)
                     /\ IF response.text = "PACKET_COUNT"
                        THEN /\ packet_count' = response.count
                             /\ packet_index' = 0
                             /\ mpc' = "packets"
                             /\ UNCHANGED mpos
                        ELSE /\ mpos' = mpos + 1
                             /\ UNCHANGED << packet_count, packet_index, mpc >>
            ELSE /\ mpos' = mpos + 1
                 /\ UNCHANGED << all_packets, packet_count, packet_index, mpc >>
       ELSE \* save_received_images, the status report, return True
            /\ mpc' = "idle"
            /\ mpos' = 0
            /\ UNCHANGED << all_packets, packet_count, packet_index >>
    /\ UNCHANGED << capture_status, current_packets, wpc, capture_results,
                    completion_status, runs, started >>

\* receive_image_packets: for i in range(packet_count):
\* send_command(slave_id, f"GET_PACKET:{i}"); json.loads; packets.append;
\* an answer that is not a packet is logged and skipped
GetPacket ==
    /\ mpc = "packets"
    /\ IF packet_index < packet_count
       THEN LET response == handle_command(mpos, Cmd("GET_PACKET", packet_index))
            IN  /\ all_packets' =
                     IF response.text = "PACKET"
                     THEN [all_packets EXCEPT ![mpos] = Append(@, response.packet)]
                     ELSE all_packets
                /\ packet_index' = packet_index + 1
                /\ UNCHANGED << mpc, mpos >>
       ELSE /\ mpc' = "receive"
            /\ mpos' = mpos + 1
            /\ UNCHANGED << all_packets, packet_index >>
    /\ UNCHANGED << capture_status, current_packets, wpc, capture_results,
                    completion_status, packet_count, runs, started >>

\* capture_worker: self.capture_status = "CAPTURING"
WorkerBegin(s, w) ==
    /\ wpc[s][w] = "started"
    /\ capture_status' = [capture_status EXCEPT ![s] = "CAPTURING"]
    /\ wpc' = [wpc EXCEPT ![s][w] = "capturing"]
    /\ UNCHANGED << current_packets, mpc, mpos, capture_results, completion_status,
                    packet_count, packet_index, all_packets, runs, started >>

\* capture_worker: image_bytes = self.camera.capture_image(...); with bytes
\* self.current_packets = encode_image_to_packets(...); without bytes, or
\* on an exception, self.capture_status = "ERROR"
WorkerCapture(s, w) ==
    /\ wpc[s][w] = "capturing"
    /\ \E image_bytes \in { "bytes", "none", "raised" } :
         IF image_bytes = "bytes"
         THEN /\ current_packets' = [current_packets EXCEPT ![s] = encode_image_to_packets(w)]
              /\ wpc' = [wpc EXCEPT ![s][w] = "encoded"]
              /\ UNCHANGED capture_status
         ELSE /\ capture_status' = [capture_status EXCEPT ![s] = "ERROR"]
              /\ wpc' = [wpc EXCEPT ![s][w] = "done"]
              /\ UNCHANGED current_packets
    /\ UNCHANGED << mpc, mpos, capture_results, completion_status, packet_count,
                    packet_index, all_packets, runs, started >>

\* capture_worker: self.capture_status = "COMPLETE"
WorkerComplete(s, w) ==
    /\ wpc[s][w] = "encoded"
    /\ capture_status' = [capture_status EXCEPT ![s] = "COMPLETE"]
    /\ wpc' = [wpc EXCEPT ![s][w] = "done"]
    /\ UNCHANGED << current_packets, mpc, mpos, capture_results, completion_status,
                    packet_count, packet_index, all_packets, runs, started >>

NextSpi ==
    \/ StartSequence /\ UNCHANGED << vars, responder, overlap, classifier >>
    \/ Broadcast /\ UNCHANGED << vars, responder, overlap, classifier >>
    \/ Poll /\ UNCHANGED << vars, responder, overlap, classifier >>
    \/ GetPacketCount /\ UNCHANGED << vars, responder, overlap, classifier >>
    \/ GetPacket /\ UNCHANGED << vars, responder, overlap, classifier >>
    \/ (\E s \in SPI_SLAVES, w \in Workers : WorkerBegin(s, w))
         /\ UNCHANGED << vars, responder, overlap, classifier >>
    \/ (\E s \in SPI_SLAVES, w \in Workers : WorkerCapture(s, w))
         /\ UNCHANGED << vars, responder, overlap, classifier >>
    \/ (\E s \in SPI_SLAVES, w \in Workers : WorkerComplete(s, w))
         /\ UNCHANGED << vars, responder, overlap, classifier >>

SpecSpi == Init /\ [][NextSpi]_all_vars

(***************************************************************************)
(* Properties of the SPI variant                                           *)
(***************************************************************************)
\* the values of capture_status, and the changes the state machine allows
StatusValues == { "IDLE", "CAPTURING", "COMPLETE", "ERROR" }
StatusMoves ==
    { << "IDLE", "CAPTURING" >>, << "CAPTURING", "COMPLETE" >>,
      << "CAPTURING", "ERROR" >>, << "COMPLETE", "CAPTURING" >>,
      << "ERROR", "CAPTURING" >> }

\* C33: capture_status of every slave is one of IDLE, CAPTURING, COMPLETE,
\* ERROR, and every change of it is IDLE -> CAPTURING, CAPTURING ->
\* COMPLETE, CAPTURING -> ERROR, or COMPLETE / ERROR -> CAPTURING for the
\* next accepted capture; COMPLETE and ERROR are entered from CAPTURING only.
C33_StatusStateMachine ==
    /\ [](\A s \in SPI_SLAVES : capture_status[s] \in StatusValues)
    /\ [][\A s \in SPI_SLAVES :
            capture_status'[s] # capture_status[s] =>
              << capture_status[s], capture_status'[s] >> \in StatusMoves]_all_vars

\* the capture_worker threads of slave s that have not ended
RunningWorkers(s) ==
    { w \in Workers : wpc[s][w] \in { "started", "capturing", "encoded" } }

\* C34: on every slave at most one capture worker is running at any
\* moment: a CAPTURE that arrives while a capture is in progress starts no
\* second worker.
C34_OneWorkerAtATime ==
    \A s \in SPI_SLAVES : Cardinality(RunningWorkers(s)) <= 1

\* C39: a slave the master takes as completed answered CAPTURE_STARTED in
\* this sequence, and every packet the master fetches from it belongs to
\* the capture that command started.
C39_FreshCompletion ==
    \A s \in SPI_SLAVES :
      /\ (s \in DOMAIN completion_status /\ completion_status[s]) =>
           (s \in DOMAIN capture_results /\ capture_results[s])
      /\ s \in DOMAIN all_packets =>
           \A k \in 1..Len(all_packets[s]) : all_packets[s][k].capture = started[s]

====
